---- MODULE Spec2Model ----
(***************************************************************************)
(* GalleryDLSubBot: the download / subscription lifecycle.                 *)
(*                                                                         *)
(* The program is a single asyncio process.  Every action below is the     *)
(* code one task runs between two suspension points (an await that really  *)
(* suspends); an async generator runs inside the task that awaits its next *)
(* batch, so a generator step and the consumer's loop body that receives   *)
(* the batch belong to the same action.  Once stop() has returned the      *)
(* process exits and nothing runs until it is started again.               *)
(*                                                                         *)
(* Time is counted in hours.  Item paths are numbered in the order the     *)
(* fetch tool writes them into the storage directory of a Download.        *)
(***************************************************************************)
EXTENDS Integers, Sequences, FiniteSets, TLC

\* ---- bounds of the model ------------------------------------------------
MaxItems == 2       \* items the fetch tool discovers at most, over all fetches
MaxRuns == 2        \* ActiveDownload objects created at most, over all Downloads
MaxClock == 10      \* last hour the clock reaches
MaxCalls == 2       \* manager operations the bot callback handlers start at most

\* ---- program constants --------------------------------------------------
SUB_UPDATE_AFTER == 5      \* SubscriptionManager.SUB_UPDATE_AFTER (hours)
EMPTY_BATCH_LIMIT == 10    \* _check_for_updates: zero_batches > 10

\* ---- the persisted configuration the process starts from ---------------
Downloads == {1, 2, 3, 4}      \* Download objects (each has its own storage path)
Consumers == {"loop", "user"}
Handlers == {"h1", "h2"}       \* bot callbacks that call the manager concurrently
InitSubscriptions == <<1>>
InitSubscriptionsTwo == <<1, 2>>
\* the dataclass SubscriptionDestination (its field subscription is the Download whose
\* list holds it)
SubscriptionDestination(chat_id, creator_id, created_date, paused) ==
    [chat_id |-> chat_id, creator_id |-> creator_id, created_date |-> created_date,
     paused |-> paused]
InitDestinations ==
    [d \in Downloads |->
        IF d = 1
        THEN << SubscriptionDestination(1, 1, 0, FALSE),
                SubscriptionDestination(2, 1, 0, FALSE) >>
        ELSE IF d = 2
        THEN << SubscriptionDestination(1, 1, 0, FALSE) >>
        ELSE << >>]
TickSteps == {SUB_UPDATE_AFTER}

VARIABLES
    clock,                      \* datetime.now(), in hours
    running,                    \* SubscriptionManager.running
    subscriptions,              \* SubscriptionManager.subscriptions (list of Downloads)
    loop_pc,                    \* position of the runner task (SubscriptionManager.run)
    snapshot,                   \* self.subscriptions[:] of the current cycle
    idx,                        \* position of the for loop in the snapshot
    stop_pc,                    \* position of SubscriptionManager.stop
    cons,                       \* per consumer: the async-for over download()
    last_check_date,            \* Download.last_check_date
    last_successful_check_date, \* Subscription.last_successful_check_date
    failed_checks,              \* Subscription.failed_checks
    destinations,               \* Subscription.destinations
    files,                      \* number of item files in Download.path
    num_files,                  \* Download.num_files
    trackers,                   \* per Download: every ActiveDownload created
    active_download,            \* Download.active_download (index, 0 = None)
    installed,                  \* GalleryDLManager.last_update is not None
    saved,                      \* content of subscriptions.json
    complete_downloads,         \* SubscriptionManager.complete_downloads (list of Downloads)
    kind,                       \* class of a Download object ("none": not created)
    link,                       \* Download.link
    storage,                    \* the directory Download.path exists
    zip_lock,                   \* Download.zip_lock: "free" or the handler holding it
    ops,                        \* per handler: the manager operation it is in
    saving                      \* SubscriptionManager.save: its position, the file
                                \* subscriptions.json.bak, the state of subscriptions.json

vars == << clock, running, subscriptions, loop_pc, snapshot, idx, stop_pc, cons,
           last_check_date, last_successful_check_date, failed_checks,
           destinations, files, num_files, trackers, active_download,
           installed, saved, complete_downloads, kind, link, storage, zip_lock, ops,
           saving >>

\* the state only the manager operations of the bot callbacks and the steps of save()
\* change
mgmt == << complete_downloads, kind, link, storage, zip_lock, ops, saving >>

\* ---- helpers --------------------------------------------------------------
Range(s) == {s[i] : i \in 1..Len(s)}

RECURSIVE SumOver(_, _)
SumOver(f, S) ==
    IF S = {} THEN 0
    ELSE LET x == CHOOSE y \in S : TRUE IN f[x] + SumOver(f, S \ {x})

\* Download.list_files: the sorted item paths in the storage directory
list_files(n) == [i \in 1..n |-> i]

\* a link is a str or a list of str; a str is kept as the sequence of its words
\* (the pieces between single spaces), a list as the sequence of its elements
LinkStr(words) == [is_list |-> FALSE, words |-> words]
LinkList(args) == [is_list |-> TRUE, words |-> args]
NoLink == LinkStr(<< >>)

\* link_fixer.link_to_str: a str as it is, a list joined with single spaces
link_to_str(l) == IF ~l.is_list THEN l ELSE LinkStr(l.words)

InitLink ==
    [d \in Downloads |->
        IF d = 1 THEN LinkStr(<< "A" >>)
        ELSE IF d = 2 THEN LinkList(<< "B", "-x" >>)
        ELSE NoLink]

\* SubscriptionDestination.to_json: the field subscription is not written
destination_to_json(dest) ==
    [chat_id |-> dest.chat_id, creator_id |-> dest.creator_id,
     created_date |-> dest.created_date, paused |-> dest.paused]

\* Subscription.to_json over the list of subscriptions (the path of a Download is
\* unique to it and stands for the object)
to_json(subs, lnk, lcd, fc, lscd, dests) ==
    [i \in 1..Len(subs) |->
        [link |-> lnk[subs[i]],
         path |-> subs[i],
         last_check_date |-> lcd[subs[i]],
         destinations |-> [k \in 1..Len(dests[subs[i]]) |->
                              destination_to_json(dests[subs[i]][k])],
         failed_checks |-> fc[subs[i]],
         last_successful_check_date |-> lscd[subs[i]]]]

\* CompleteDownload.to_json over the list of complete downloads
complete_to_json(cds, lnk, lcd) ==
    [i \in 1..Len(cds) |->
        [link |-> lnk[cds[i]], path |-> cds[i], last_check_date |-> lcd[cds[i]]]]

\* SubscriptionManager.save, lines 133-136: the content written
config_data(subs, cds, lnk, lcd, fc, lscd, dests) ==
    [subscriptions |-> to_json(subs, lnk, lcd, fc, lscd, dests),
     complete_downloads |-> complete_to_json(cds, lnk, lcd)]

save == saved' = config_data(subscriptions', complete_downloads', link', last_check_date',
                             failed_checks', last_successful_check_date', destinations')

\* save() is not running: subscriptions.json.bak does not exist (os.replace moved it) and
\* subscriptions.json holds a whole JSON text, the one of the variable saved
NotSaving ==
    [pc |-> "idle",            \* position of save(): "idle", "dump", "replace"
     bak |-> "absent",         \* subscriptions.json.bak: "absent", "empty", "partial", "whole"
     bak_data |-> << >>,       \* the config_data written or being written into it
     canonical |-> "whole"]    \* subscriptions.json: "empty", "partial", "whole"

\* no manager operation is in progress in a handler
IdleOp == [pc |-> "idle",          \* position in the operation
           kind |-> "none",        \* the operation called last
           link |-> NoLink,        \* its arguments: link, Download, chat_id, creator_id, pause
           d |-> 0,
           chat_id |-> 0,
           creator_id |-> 0,
           pause |-> FALSE,
           now |-> 0,              \* now_date of create_subscription
           new |-> 0,              \* the Download it constructed
           result |-> "none",      \* "ok" or the exception it raised
           zip_dir |-> FALSE,      \* the store/zips directory its zip call made exists
           calls |-> 0]            \* operations the handler has called

\* the Download objects of the configuration file: subs are Subscriptions, cds
\* CompleteDownloads
InitObjects(subs, cds) ==
    /\ complete_downloads = cds
    /\ kind = [d \in Downloads |->
                    IF \E i \in 1..Len(subs) : subs[i] = d THEN "Subscription"
                    ELSE IF \E i \in 1..Len(cds) : cds[i] = d THEN "CompleteDownload"
                    ELSE "none"]
    /\ link = InitLink
    /\ storage = [d \in Downloads |->
                    (\E i \in 1..Len(subs) : subs[i] = d) \/ (\E i \in 1..Len(cds) : cds[i] = d)]
    /\ zip_lock = [d \in Downloads |-> "free"]
    /\ ops = [h \in Handlers |-> IdleOp]
    /\ saving = NotSaving

IdleCons == [pc |-> "idle", d |-> 0, t |-> 0, high_water_mark |-> 0,
             new_items |-> <<>>, zero_batches |-> 0,
             batches |-> <<>>, joined_at |-> <<>>, outcome |-> "none"]

\* ActiveDownload.__init__
ActiveDownload(at_start, owner) ==
    [lines_at_start |-> at_start,
     lines_so_far |-> <<>>,
     complete |-> FALSE,
     command |-> "none",      \* self.command: "none" or "set"
     proc |-> "none",         \* Command.proc: "none", "running", "exited", "killed"
     pc |-> "start",          \* position of run()
     owner |-> owner,         \* the consumer iterating run()
     item |-> 0,              \* send_new_items: index of the item in hand
     dest |-> 0,              \* send_new_items: index of the destination in hand
     result |-> "none",       \* how the fetch subprocess ended
     fanout |-> "none",       \* send_new_items: "none", "running", "returned", "raised"
     fanouts |-> 0,           \* number of send_new_items calls of this run
     paused_during |-> {},    \* chats that were paused at some point of the fan-out
     kill_called |-> FALSE,   \* kill() was called on this tracker from outside
     sent |-> <<>>]           \* the send_message calls of this run, in order

Init ==
    /\ clock = 0
    /\ running = FALSE
    /\ subscriptions = InitSubscriptions
    /\ loop_pc = "init"
    /\ snapshot = <<>>
    /\ idx = 0
    /\ stop_pc = "none"
    /\ cons = [c \in Consumers |-> IdleCons]
    /\ last_check_date = [d \in Downloads |-> 0]
    /\ last_successful_check_date = [d \in Downloads |-> 0]
    /\ failed_checks = [d \in Downloads |-> 0]
    /\ destinations = InitDestinations
    /\ files = [d \in Downloads |-> 0]
    /\ num_files = [d \in Downloads |-> 0]
    /\ trackers = [d \in Downloads |-> <<>>]
    /\ active_download = [d \in Downloads |-> 0]
    /\ installed = FALSE
    /\ saved = config_data(InitSubscriptions, << >>, InitLink, [d \in Downloads |-> 0],
                           [d \in Downloads |-> 0], [d \in Downloads |-> 0],
                           InitDestinations)
    /\ InitObjects(InitSubscriptions, << >>)

\* ---- Download.download and the two generators ----------------------------

\* mutant of starts_new_fetch: every download() call starts a fetch
starts_new_fetch_always(active, trks) ==
    TRUE

\* subscription.py:123, the test that decides between run() and track()
starts_new_fetch(active, trks) ==
    active = 0 \/ trks[active].complete

\* mutant of track_new_lines: the line at the high water mark is passed over
track_new_lines_skips_one(lines_so_far, high_water_mark) ==
    SubSeq(lines_so_far, high_water_mark + 2, Len(lines_so_far))

\* mutant of track_new_lines: the high water mark is ignored
track_new_lines_from_start(lines_so_far, high_water_mark) ==
    lines_so_far

\* ActiveDownload.track, lines 72 and 76: the lines past the high water mark
track_new_lines(lines_so_far, high_water_mark) ==
    SubSeq(lines_so_far, high_water_mark + 1, Len(lines_so_far))

\* the body of the consumer's async for, run once per batch:
\* _check_for_updates lines 276-278 (loop), Bot._download_link line 255 (user)
body(c, rec, batch) ==
    [rec EXCEPT !.new_items = @ \o batch,
                !.zero_batches = IF c = "loop" /\ Len(batch) = 0 THEN @ + 1 ELSE @,
                !.batches = IF Len(@) < 2 THEN Append(@, batch) ELSE @]

\* _check_for_updates lines 277-284: the empty-batch guard breaks out of the async for
loop_breaks(rec, batch) ==
    Len(batch) = 0 /\ rec.zero_batches > EMPTY_BATCH_LIMIT

\* GalleryDLManager.make_cmd once check_install has returned: the Command exists and
\* Command.run_iter spawns the subprocess
command_started(T) ==
    [T EXCEPT !.command = "set", !.proc = "running", !.pc = "fetch"]

\* an ActiveDownload that is complete and that no generator refers to any more is
\* garbage once Download.active_download is overwritten (subscription.py:125)
Collected ==
    [ActiveDownload(<< >>, "none") EXCEPT !.complete = TRUE, !.pc = "collected"]

Referenced(d, t) ==
    \E c \in Consumers : cons[c].pc \in {"run", "track"} /\ cons[c].d = d /\ cons[c].t = t

collect(d) ==
    [t \in 1..Len(trackers[d]) |->
        IF trackers[d][t].complete /\ ~Referenced(d, t) THEN Collected ELSE trackers[d][t]]

\* GalleryDLManager.rwlock.writer_lock is held: pip runs inside install_tool for
\* some fetch, or inside update_tool / update_tool_prerelease for some handler
WriterHeld ==
    \/ \E d \in Downloads : \E t \in 1..Len(trackers[d]) : trackers[d][t].pc = "install"
    \/ \E h \in Handlers : ops[h].kind = "update_tool" /\ ops[h].pc = "pip"

\* GalleryDLManager.install_tool entered from check_install: `async with
\* self.rwlock.writer_lock` is entered at once when the lock is free
install_tool(T) ==
    [T EXCEPT !.pc = IF WriterHeld THEN "wait_writer" ELSE "install"]

\* Download.download called by consumer c, with the consumer's first batches
download(c, d) ==
    IF starts_new_fetch(active_download[d], trackers[d])
    THEN LET t == Len(trackers[d]) + 1
             T0 == ActiveDownload(list_files(files[d]), c)
             T == IF installed THEN command_started(T0) ELSE install_tool(T0)
             rec == [IdleCons EXCEPT !.pc = "run", !.d = d, !.t = t]
         IN /\ SumOver([x \in Downloads |-> Len(trackers[x])], Downloads) < MaxRuns
            /\ trackers' = [trackers EXCEPT ![d] = Append(collect(d), T)]
            /\ active_download' = [active_download EXCEPT ![d] = t]
            /\ last_check_date' = [last_check_date EXCEPT ![d] = clock]
            /\ cons' = [cons EXCEPT ![c] = body(c, rec, T.lines_at_start)]
    ELSE LET t == active_download[d]
             T == trackers[d][t]
             rec == [IdleCons EXCEPT !.pc = "track", !.d = d, !.t = t,
                                     !.joined_at = T.lines_so_far]
             rec1 == body(c, rec, T.lines_at_start)
             new_lines == track_new_lines(T.lines_so_far, 0)
             rec2 == body(c, [rec1 EXCEPT !.high_water_mark = Len(new_lines)], new_lines)
         IN /\ cons' = [cons EXCEPT ![c] = rec2]
            /\ UNCHANGED << trackers, active_download, last_check_date >>

\* ---- the polling loop: SubscriptionManager.run / _check_for_updates --------

\* a test that finds every Subscription due
is_due_always(now, lcd) ==
    TRUE

\* _check_for_updates line 266
is_due(now, lcd) ==
    ~((now - lcd) < SUB_UPDATE_AFTER)

\* mutant of after_poll_failed: the exception leaves the for loop of the cycle
after_poll_failed_aborts(d) ==
    /\ failed_checks' = [failed_checks EXCEPT ![d] = @ + 1]
    /\ last_check_date' = [last_check_date EXCEPT ![d] = clock]
    /\ UNCHANGED last_successful_check_date
    /\ loop_pc' = "done"
    /\ idx' = idx

\* _check_for_updates lines 286-291: the async for raised
after_poll_failed(d) ==
    /\ failed_checks' = [failed_checks EXCEPT ![d] = @ + 1]
    /\ last_check_date' = [last_check_date EXCEPT ![d] = clock]
    /\ UNCHANGED last_successful_check_date
    /\ loop_pc' = "head"
    /\ idx' = idx + 1

\* mutant of after_poll_ok: the poll is counted as a failed one
after_poll_ok_counts_failure(d) ==
    /\ failed_checks' = [failed_checks EXCEPT ![d] = @ + 1]
    /\ last_check_date' = [last_check_date EXCEPT ![d] = clock]
    /\ UNCHANGED last_successful_check_date
    /\ loop_pc' = "head"
    /\ idx' = idx + 1

\* mutant of after_poll_ok: only the date of the last successful check is stamped
after_poll_ok_stamps_success_only(d) ==
    /\ last_successful_check_date' = [last_successful_check_date EXCEPT ![d] = clock]
    /\ UNCHANGED << last_check_date, failed_checks >>
    /\ loop_pc' = "head"
    /\ idx' = idx + 1

\* _check_for_updates lines 292-301: the async for ended or was left by break
after_poll_ok(d) ==
    /\ last_check_date' = [last_check_date EXCEPT ![d] = clock]
    /\ last_successful_check_date' = [last_successful_check_date EXCEPT ![d] = clock]
    /\ UNCHANGED failed_checks
    /\ loop_pc' = "head"
    /\ idx' = idx + 1

\* the consumer's async for is over: how is "end", "break" or "raise"
stream_end(c, d, rec, how) ==
    /\ cons' = [cons EXCEPT ![c] = [IdleCons EXCEPT !.outcome = how, !.d = d, !.t = rec.t,
                                                    !.new_items = rec.new_items]]
    /\ IF c = "loop"
       THEN IF how = "raise" THEN after_poll_failed(d) ELSE after_poll_ok(d)
       ELSE UNCHANGED << last_check_date, last_successful_check_date, failed_checks,
                         loop_pc, idx >>

\* the consumer took a batch and awaits the next one
stream_continue(c, rec) ==
    /\ cons' = [cons EXCEPT ![c] = rec]
    /\ UNCHANGED << last_check_date, last_successful_check_date, failed_checks,
                    loop_pc, idx >>

\* a runner that never sees the stop signal
still_running_always(flag) ==
    TRUE

\* the tests of self.running by the runner task: run line 250, _check_for_updates
\* line 261, _sleep line 306
still_running(flag) ==
    flag

\* SubscriptionManager.run line 248 and the first snapshot of _check_for_updates
Start ==
    /\ stop_pc # "returned"
    /\ UNCHANGED mgmt
    /\ loop_pc = "init"
    /\ running' = TRUE
    /\ loop_pc' = "head"
    /\ snapshot' = subscriptions
    /\ idx' = 1
    /\ UNCHANGED << clock, subscriptions, stop_pc, cons, last_check_date,
                    last_successful_check_date, failed_checks, destinations, files,
                    num_files, trackers, active_download, installed, saved >>

\* _check_for_updates lines 261-262: stop was signalled, the cycle returns; _sleep and
\* the while of run() both see running == False
LoopReturn ==
    /\ stop_pc # "returned"
    /\ UNCHANGED mgmt
    /\ loop_pc = "head" /\ idx <= Len(snapshot)
    /\ ~still_running(running)
    /\ loop_pc' = "done"
    /\ UNCHANGED << clock, running, subscriptions, snapshot, idx, stop_pc, cons,
                    last_check_date, last_successful_check_date, failed_checks,
                    destinations, files, num_files, trackers, active_download,
                    installed, saved >>

\* _check_for_updates lines 265-267: not due yet
LoopSkip ==
    /\ stop_pc # "returned"
    /\ UNCHANGED mgmt
    /\ loop_pc = "head" /\ idx <= Len(snapshot)
    /\ still_running(running)
    /\ ~is_due(clock, last_check_date[snapshot[idx]])
    /\ idx' = idx + 1
    /\ UNCHANGED << clock, running, subscriptions, loop_pc, snapshot, stop_pc, cons,
                    last_check_date, last_successful_check_date, failed_checks,
                    destinations, files, num_files, trackers, active_download,
                    installed, saved >>

\* _check_for_updates lines 268-275: the subscription is due, download() is called
LoopPoll ==
    /\ stop_pc # "returned"
    /\ UNCHANGED mgmt
    /\ loop_pc = "head" /\ idx <= Len(snapshot)
    /\ still_running(running)
    /\ is_due(clock, last_check_date[snapshot[idx]])
    /\ download("loop", snapshot[idx])
    /\ loop_pc' = "poll"
    /\ UNCHANGED << clock, running, subscriptions, snapshot, idx, stop_pc,
                    last_successful_check_date, failed_checks, destinations, files,
                    num_files, installed, saved >>

\* the for loop of _check_for_updates is exhausted: run() goes to _sleep(20)
LoopCycleEnd ==
    /\ stop_pc # "returned"
    /\ UNCHANGED mgmt
    /\ loop_pc = "head" /\ idx > Len(snapshot)
    /\ loop_pc' = "sleep"
    /\ UNCHANGED << clock, running, subscriptions, snapshot, idx, stop_pc, cons,
                    last_check_date, last_successful_check_date, failed_checks,
                    destinations, files, num_files, trackers, active_download,
                    installed, saved >>

\* _sleep returns: run() tests self.running and starts the next cycle or ends
LoopWake ==
    /\ stop_pc # "returned"
    /\ UNCHANGED mgmt
    /\ loop_pc = "sleep"
    /\ IF still_running(running)
       THEN loop_pc' = "head" /\ snapshot' = subscriptions /\ idx' = 1
       ELSE loop_pc' = "done" /\ UNCHANGED << snapshot, idx >>
    /\ UNCHANGED << clock, running, subscriptions, stop_pc, cons,
                    last_check_date, last_successful_check_date, failed_checks,
                    destinations, files, num_files, trackers, active_download,
                    installed, saved >>

\* Bot._download_link lines 253-254: an on-demand download() of a registered link
UserDownload(d) ==
    /\ stop_pc = "none"
    /\ UNCHANGED mgmt
    /\ cons["user"].pc = "idle"
    /\ download("user", d)
    /\ UNCHANGED << clock, running, subscriptions, loop_pc, snapshot, idx, stop_pc,
                    last_successful_check_date, failed_checks, destinations, files,
                    num_files, installed, saved >>

\* ---- ActiveDownload.run, driven by the consumer that owns it ------------------

\* mutant of first_unpaused: the destination at position j itself is passed over
first_unpaused_after(dests, j) ==
    LET S == {k \in (j + 1)..Len(dests) : ~dests[k].paused}
    IN IF S = {} THEN 0 ELSE CHOOSE k \in S : \A m \in S : k <= m

\* mutant of first_unpaused: the paused flag is not looked at
first_unpaused_ignores_pause(dests, j) ==
    IF j <= Len(dests) THEN j ELSE 0

\* Subscription.send_new_items lines 253-255: the next destination from position j on
\* that is not paused (0 when the for loop over the destinations is exhausted)
first_unpaused(dests, j) ==
    LET S == {k \in j..Len(dests) : ~dests[k].paused}
    IN IF S = {} THEN 0 ELSE CHOOSE k \in S : \A m \in S : k <= m

\* mutant of send_new_items: complete is set before the fan-out instead of after it
send_new_items_completes_first(T, dests) ==
    IF Len(T.lines_so_far) = 0
    THEN [T EXCEPT !.fanout = "returned", !.fanouts = @ + 1]
    ELSE [T EXCEPT !.pc = "upload", !.item = 1, !.dest = 0, !.complete = TRUE,
                   !.fanout = "running", !.fanouts = @ + 1,
                   !.paused_during = {dests[k].chat_id : k \in {m \in 1..Len(dests) : dests[m].paused}}]

\* Subscription.send_new_items lines 245-247: called with lines_so_far, it runs up to
\* the first upload_file (or returns at once when there is no item)
send_new_items(T, dests) ==
    IF Len(T.lines_so_far) = 0
    THEN [T EXCEPT !.fanout = "returned", !.fanouts = @ + 1]
    ELSE [T EXCEPT !.pc = "upload", !.item = 1, !.dest = 0,
                   !.fanout = "running", !.fanouts = @ + 1,
                   !.paused_during = {dests[k].chat_id : k \in {m \in 1..Len(dests) : dests[m].paused}}]

\* Download.send_new_items (lines 118-119), which a CompleteDownload inherits: pass
download_send_new_items(T) ==
    [T EXCEPT !.fanout = "returned", !.fanouts = @ + 1]

\* Subscription.send_new_items lines 253-262 resumed at destination j of the item in
\* hand: up to the next send_message, the next upload_file, or the return
send_loop(T, dests, j) ==
    LET k == first_unpaused(dests, j)
    IN IF k # 0
       THEN [T EXCEPT !.pc = "send", !.dest = k,
                      !.sent = Append(@, [chat_id |-> dests[k].chat_id,
                                          paused |-> dests[k].paused,
                                          item |-> T.lines_so_far[T.item]])]
       ELSE IF T.item < Len(T.lines_so_far)
            THEN [T EXCEPT !.pc = "upload", !.item = @ + 1, !.dest = 0]
            ELSE [T EXCEPT !.fanout = "returned"]

\* mutant of run_finally: complete is set only when send_new_items returned
run_finally_on_success(T) ==
    IF T.fanout = "raised" THEN [T EXCEPT !.pc = "done"]
    ELSE [T EXCEPT !.complete = TRUE, !.pc = "done"]

\* ActiveDownload.run lines 63-64, the finally clause
run_finally(T) ==
    [T EXCEPT !.complete = TRUE, !.pc = "done"]

\* ActiveDownload.run lines 59-66 after a step T1 of send_new_items: when the fan-out
\* has returned or raised, the finally clause runs, the generator ends and the owner's
\* async for is over
run_tail(d, t, T1) ==
    LET c == T1.owner
        fin == T1.fanout \in {"returned", "raised"}
    IN /\ trackers' = [trackers EXCEPT ![d][t] = IF fin THEN run_finally(T1) ELSE T1]
       /\ IF fin
          THEN /\ num_files' = [num_files EXCEPT ![d] = files[d]]
               /\ stream_end(c, d, cons[c], "end")
               /\ save
          ELSE /\ UNCHANGED << num_files, saved >>
               /\ stream_continue(c, cons[c])

Awaited(d, t) ==
    /\ stop_pc # "returned"
    /\ t \in 1..Len(trackers[d])
    /\ trackers[d][t].owner \in Consumers
    /\ LET c == trackers[d][t].owner
       IN cons[c].pc = "run" /\ cons[c].d = d /\ cons[c].t = t

\* GalleryDLManager.check_install / install_tool succeeded: last_update is set,
\* make_cmd returns the Command and run_iter spawns the subprocess
InstallOk(d, t) ==
    /\ Awaited(d, t)
    /\ UNCHANGED mgmt
    /\ trackers[d][t].pc = "install"
    /\ installed' = TRUE
    /\ trackers' = [trackers EXCEPT ![d][t] = command_started(@)]
    /\ UNCHANGED << clock, running, subscriptions, loop_pc, snapshot, idx, stop_pc, cons,
                    last_check_date, last_successful_check_date, failed_checks,
                    destinations, files, num_files, active_download, saved >>

\* install_tool raised (pip failed or timed out): download_cmd raises at run() line 50,
\* outside every try, and the exception reaches the consumer
InstallFail(d, t) ==
    /\ Awaited(d, t)
    /\ UNCHANGED mgmt
    /\ trackers[d][t].pc = "install"
    /\ UNCHANGED << clock, running, subscriptions, snapshot, stop_pc,
                    destinations, files, num_files, active_download, installed >>
    /\ trackers' = [trackers EXCEPT ![d][t].pc = "raised"]
    /\ stream_end(trackers[d][t].owner, d, cons[trackers[d][t].owner], "raise")
    /\ IF trackers[d][t].owner = "loop" THEN save ELSE UNCHANGED saved

\* run() lines 53-55: the subprocess wrote an item into the storage directory (making
\* the directory when it is not there) and printed its path
Emit(d, t) ==
    /\ UNCHANGED saving
    /\ Awaited(d, t)
    /\ UNCHANGED << complete_downloads, kind, link, zip_lock, ops >>
    /\ storage' = [storage EXCEPT ![d] = TRUE]
    /\ trackers[d][t].pc = "fetch" /\ trackers[d][t].proc = "running"
    /\ SumOver(files, Downloads) < MaxItems
    /\ LET line == files[d] + 1
           c == trackers[d][t].owner
       IN /\ files' = [files EXCEPT ![d] = line]
          /\ trackers' = [trackers EXCEPT ![d][t].lines_so_far = Append(@, line)]
          /\ stream_continue(c, body(c, cons[c], << line >>))
    /\ UNCHANGED << clock, running, subscriptions, snapshot, stop_pc, destinations,
                    num_files, active_download, installed, saved >>

\* run() lines 53-60: the stream of the subprocess ended: with exit code 0 ("ok"), or
\* run_iter raised CmdException for a nonzero exit code or the idle timeout, which
\* line 56 catches; then send_new_items is called. A killed process has a nonzero
\* exit code (run_cmd.py:157-160)
FetchEnd(d, t, res) ==
    /\ Awaited(d, t)
    /\ UNCHANGED mgmt
    /\ trackers[d][t].pc = "fetch"
    /\ trackers[d][t].proc = "killed" => res = "CmdException"
    /\ UNCHANGED << clock, running, subscriptions, snapshot, stop_pc, destinations,
                    files, active_download, installed >>
    /\ LET T == [trackers[d][t] EXCEPT !.proc = IF @ = "killed" THEN @ ELSE "exited",
                                       !.result = res]
       IN run_tail(d, t, IF kind[d] = "Subscription"
                         THEN send_new_items(T, destinations[d])
                         ELSE download_send_new_items(T))

\* client.upload_file returned: the for loop over the destinations starts
UploadDone(d, t) ==
    /\ Awaited(d, t)
    /\ UNCHANGED mgmt
    /\ trackers[d][t].pc = "upload"
    /\ UNCHANGED << clock, running, subscriptions, snapshot, stop_pc, destinations,
                    files, active_download, installed >>
    /\ run_tail(d, t, send_loop(trackers[d][t], destinations[d], 1))

\* client.send_message returned: the for loop goes on behind the destination in hand
SendDone(d, t) ==
    /\ Awaited(d, t)
    /\ UNCHANGED mgmt
    /\ trackers[d][t].pc = "send"
    /\ UNCHANGED << clock, running, subscriptions, snapshot, stop_pc, destinations,
                    files, active_download, installed >>
    /\ run_tail(d, t, send_loop(trackers[d][t], destinations[d], trackers[d][t].dest + 1))

\* client.upload_file or client.send_message raised: caught at run() line 61
DeliveryFail(d, t) ==
    /\ Awaited(d, t)
    /\ UNCHANGED mgmt
    /\ trackers[d][t].pc \in {"upload", "send"}
    /\ UNCHANGED << clock, running, subscriptions, snapshot, stop_pc, destinations,
                    files, active_download, installed >>
    /\ run_tail(d, t, [trackers[d][t] EXCEPT !.fanout = "raised"])

\* ActiveDownload.track lines 71-77: asyncio.sleep(1) returned
TrackWake(c) ==
    /\ stop_pc # "returned"
    /\ UNCHANGED mgmt
    /\ cons[c].pc = "track"
    /\ UNCHANGED << clock, running, subscriptions, snapshot, stop_pc, destinations,
                    files, num_files, trackers, active_download, installed >>
    /\ LET rec == cons[c]
           T == trackers[rec.d][rec.t]
           new_lines == track_new_lines(T.lines_so_far, rec.high_water_mark)
           rec1 == body(c, [rec EXCEPT !.high_water_mark = @ + Len(new_lines)], new_lines)
           brk == c = "loop" /\ loop_breaks(rec1, new_lines)
       IN IF T.complete \/ brk
          THEN /\ stream_end(c, rec.d, rec1, IF brk THEN "break" ELSE "end")
               /\ IF c = "loop" THEN save ELSE UNCHANGED saved
          ELSE /\ stream_continue(c, rec1)
               /\ UNCHANGED saved

\* ---- SubscriptionManager.pause_subscription and stop -------------------------

\* a lookup that never finds a destination
matching_chat_none(dests, chat_id) ==
    0

\* Subscription.matching_chat: the position of the first destination of the chat
\* (0 = None)
matching_chat(dests, chat_id) ==
    LET S == {k \in 1..Len(dests) : dests[k].chat_id = chat_id}
    IN IF S = {} THEN 0 ELSE CHOOSE k \in S : \A m \in S : k <= m

\* SubscriptionManager.pause_subscription, the destination exists
Pause(d, chat_id, pause) ==
    /\ stop_pc = "none"
    /\ UNCHANGED mgmt
    /\ d \in Range(subscriptions)
    /\ matching_chat(destinations[d], chat_id) # 0
    /\ destinations' = [destinations EXCEPT
                            ![d][matching_chat(destinations[d], chat_id)].paused = pause]
    /\ trackers' = [trackers EXCEPT ![d] =
                        [t \in 1..Len(@) |->
                            IF pause /\ @[t].fanout = "running"
                            THEN [@[t] EXCEPT !.paused_during = @ \cup {chat_id}]
                            ELSE @[t]]]
    /\ UNCHANGED << clock, running, subscriptions, loop_pc, snapshot, idx, stop_pc, cons,
                    last_check_date, last_successful_check_date, failed_checks,
                    files, num_files, active_download, installed >>
    /\ save

\* a kill that does not reach the process
kill_not_sent(T) ==
    T

\* ActiveDownload.kill and Command.kill
kill(T) ==
    IF T.command = "set" /\ T.proc = "running" THEN [T EXCEPT !.proc = "killed"] ELSE T

\* ActiveDownload.kill called from outside on the tracker of Download d, whatever the
\* tracker is doing
KillCall(d) ==
    /\ stop_pc = "none"
    /\ UNCHANGED mgmt
    /\ active_download[d] # 0
    /\ ~trackers[d][active_download[d]].kill_called
    /\ trackers' = [trackers EXCEPT ![d][active_download[d]] =
                        [kill(@) EXCEPT !.kill_called = TRUE]]
    /\ UNCHANGED << clock, running, subscriptions, loop_pc, snapshot, idx, stop_pc, cons,
                    last_check_date, last_successful_check_date, failed_checks,
                    destinations, files, num_files, active_download, installed, saved >>

\* SubscriptionManager.stop line 311, then run_until_complete(runner_task) waits
StopSignal ==
    /\ stop_pc = "none"
    /\ UNCHANGED mgmt
    /\ loop_pc # "init"
    /\ running' = FALSE
    /\ stop_pc' = "joining"
    /\ UNCHANGED << clock, subscriptions, loop_pc, snapshot, idx, cons,
                    last_check_date, last_successful_check_date, failed_checks,
                    destinations, files, num_files, trackers, active_download,
                    installed, saved >>

\* SubscriptionManager.stop lines 315-320: the runner task is done
StopFinish ==
    /\ stop_pc = "joining"
    /\ UNCHANGED mgmt
    /\ loop_pc = "done"
    /\ stop_pc' = "returned"
    /\ trackers' = [d \in Downloads |->
                        [t \in 1..Len(trackers[d]) |->
                            IF /\ \E i \in 1..Len(subscriptions \o complete_downloads) :
                                    (subscriptions \o complete_downloads)[i] = d
                               /\ t = active_download[d] /\ ~trackers[d][t].complete
                            THEN kill(trackers[d][t]) ELSE trackers[d][t]]]
    /\ UNCHANGED << clock, running, subscriptions, loop_pc, snapshot, idx, cons,
                    last_check_date, last_successful_check_date, failed_checks,
                    destinations, files, num_files, active_download, installed >>
    /\ save

\* datetime.now() advances
Tick ==
    /\ stop_pc # "returned"
    /\ UNCHANGED mgmt
    /\ \E k \in TickSteps : clock + k <= MaxClock /\ clock' = clock + k
    /\ UNCHANGED << running, subscriptions, loop_pc, snapshot, idx, stop_pc, cons,
                    last_check_date, last_successful_check_date, failed_checks,
                    destinations, files, num_files, trackers, active_download,
                    installed, saved >>

\* ---- the manager operations called by the bot callbacks ----------------------

\* SubscriptionManager.all_downloads
all_downloads == subscriptions \o complete_downloads

\* the comparison of download_for_link and sub_for_link (lines 143 and 149): the
\* requested link equals the stored link or the string form of the stored link
link_matches(d, lnk) == link[d] = lnk \/ link_to_str(link[d]) = lnk

\* the first Download of the list whose link matches (0 = None)
first_match(list, lnk) ==
    LET S == {i \in 1..Len(list) : link_matches(list[i], lnk)}
    IN IF S = {} THEN 0 ELSE list[CHOOSE i \in S : \A j \in S : i <= j]

\* SubscriptionManager.download_for_link
download_for_link(lnk) == first_match(all_downloads, lnk)

\* SubscriptionManager.sub_for_link
sub_for_link(lnk) == first_match(subscriptions, lnk)

\* a lookup that takes the first destination of the Subscription, whatever its chat
sub_for_link_and_chat_any(lnk, chat_id) ==
    IF sub_for_link(lnk) = 0 \/ destinations[sub_for_link(lnk)] = << >> THEN 0 ELSE 1

\* SubscriptionManager.sub_for_link_and_chat: the position of the destination in the
\* matching Subscription (0 = None)
sub_for_link_and_chat(lnk, chat_id) ==
    IF sub_for_link(lnk) = 0 THEN 0
    ELSE matching_chat(destinations[sub_for_link(lnk)], chat_id)

\* a remove that leaves the list as it is
ListRemove_keeps(list, x) ==
    list

\* Subscription.matching_dest: the position of the first destination of the chat made by
\* the user (0 = None)
matching_dest(dests, chat_id, user_id) ==
    LET S == {k \in 1..Len(dests) : dests[k].chat_id = chat_id
                                        /\ dests[k].creator_id = user_id}
    IN IF S = {} THEN 0 ELSE CHOOSE k \in S : \A m \in S : k <= m

\* list.remove(x) for a list without duplicates
ListRemove(list, x) ==
    SelectSeq(list, LAMBDA y : y # x)

\* a del that always drops the last element
ListRemoveAt_drops_last(list, k) ==
    SubSeq(list, 1, Len(list) - 1)

\* del list[k]
ListRemoveAt(list, k) ==
    [i \in 1..(Len(list) - 1) |-> IF i < k THEN list[i] ELSE list[i + 1]]

\* the next Download object to be constructed (uuid4 gives it a path of its own)
Unused == {d \in Downloads : kind[d] = "none"}
fresh == CHOOSE d \in Unused : \A e \in Unused : d <= e

\* the handler's manager call is over
finished(h, result) ==
    [ops[h] EXCEPT !.pc = "idle", !.result = result]

\* the manager operations the handlers have started
CallsMade == SumOver([h \in Handlers |-> ops[h].calls], Handlers)

\* the handler calls the manager operation op
called(h, op) ==
    [IdleOp EXCEPT !.kind = op, !.calls = ops[h].calls + 1]

\* the manager operation op returned or raised without a suspension point
returned(op, result) ==
    [op EXCEPT !.result = result]

\* SubscriptionManager.create_download: no suspension point
CreateDownload(h, lnk) ==
    /\ UNCHANGED saving
    /\ stop_pc = "none"
    /\ ops[h].pc = "idle" /\ CallsMade < MaxCalls
    /\ UNCHANGED << clock, running, subscriptions, loop_pc, snapshot, idx, stop_pc, cons,
                    last_successful_check_date, failed_checks, destinations, files,
                    num_files, trackers, active_download, installed, storage, zip_lock >>
    /\ IF download_for_link(lnk) # 0
       THEN /\ ops' = [ops EXCEPT ![h] =
                           returned([called(h, "create_download") EXCEPT
                                        !.link = lnk, !.d = download_for_link(lnk)], "ok")]
            /\ UNCHANGED << complete_downloads, kind, link, last_check_date, saved >>
       ELSE /\ Unused # {}
            /\ kind' = [kind EXCEPT ![fresh] = "CompleteDownload"]
            /\ link' = [link EXCEPT ![fresh] = lnk]
            /\ last_check_date' = [last_check_date EXCEPT ![fresh] = clock]
            /\ complete_downloads' = Append(complete_downloads, fresh)
            /\ ops' = [ops EXCEPT ![h] =
                           returned([called(h, "create_download") EXCEPT
                                        !.link = lnk, !.d = fresh, !.new = fresh], "ok")]
            /\ save

\* a lock that never reports being held
locked_never(d) ==
    FALSE

\* asyncio.Lock.locked of Download.zip_lock: `async with dl.zip_lock` goes on at
\* once when it is not held and waits otherwise
locked(d) ==
    zip_lock[d] # "free"

\* a delete_download that leaves the CompleteDownload in the list
delete_download_keeps_listed(h, op, d) ==
    /\ UNCHANGED complete_downloads
    /\ IF ~locked(d)
       THEN /\ zip_lock' = [zip_lock EXCEPT ![d] = h]
            /\ ops' = [ops EXCEPT ![h] = [op EXCEPT !.pc = "rmtree"]]
       ELSE /\ UNCHANGED zip_lock
            /\ ops' = [ops EXCEPT ![h] = [op EXCEPT !.pc = "wait_lock"]]

\* SubscriptionManager.delete_download lines 174-178 for a CompleteDownload d that is in
\* the list: it is removed, then the zip lock is taken (or waited for) and rmtree awaited
delete_download(h, op, d) ==
    /\ complete_downloads' = ListRemove(complete_downloads, d)
    /\ IF ~locked(d)
       THEN /\ zip_lock' = [zip_lock EXCEPT ![d] = h]
            /\ ops' = [ops EXCEPT ![h] = [op EXCEPT !.pc = "rmtree"]]
       ELSE /\ UNCHANGED zip_lock
            /\ ops' = [ops EXCEPT ![h] = [op EXCEPT !.pc = "wait_lock"]]

\* SubscriptionManager.delete_download called by Bot._handle_link
DeleteDownload(h, d) ==
    /\ UNCHANGED saving
    /\ stop_pc = "none"
    /\ ops[h].pc = "idle" /\ CallsMade < MaxCalls
    /\ kind[d] # "none"
    /\ UNCHANGED << clock, running, subscriptions, loop_pc, snapshot, idx, stop_pc, cons,
                    last_check_date, last_successful_check_date, failed_checks,
                    destinations, files, num_files, trackers, active_download,
                    installed, saved, kind, link, storage >>
    /\ LET op == [called(h, "delete_download") EXCEPT !.d = d]
       IN IF kind[d] # "CompleteDownload"
          THEN /\ ops' = [ops EXCEPT ![h] = returned(op, "ok")]
               /\ UNCHANGED << complete_downloads, zip_lock >>
          ELSE IF \A i \in 1..Len(complete_downloads) : complete_downloads[i] # d
          THEN /\ ops' = [ops EXCEPT ![h] = returned(op, "ValueError")]
               /\ UNCHANGED << complete_downloads, zip_lock >>
          ELSE delete_download(h, op, d)

\* SubscriptionManager.create_subscription lines 183-206: up to the return, the raise or
\* the await of copytree
CreateSubscription(h, chat_id, creator_id, d) ==
    /\ UNCHANGED saving
    /\ stop_pc = "none"
    /\ ops[h].pc = "idle" /\ CallsMade < MaxCalls
    /\ kind[d] # "none"
    /\ UNCHANGED << clock, running, subscriptions, loop_pc, snapshot, idx, stop_pc, cons,
                    last_check_date, last_successful_check_date, failed_checks, files,
                    num_files, trackers, active_download, installed,
                    complete_downloads, kind, link, storage, zip_lock >>
    /\ LET op == [called(h, "create_subscription") EXCEPT
                        !.d = d, !.chat_id = chat_id, !.creator_id = creator_id,
                        !.now = clock]
       IN IF kind[d] = "Subscription"
          THEN IF matching_chat(destinations[d], chat_id) # 0
               THEN /\ ops' = [ops EXCEPT ![h] = returned(op, "ValueError")]
                    /\ UNCHANGED << destinations, saved >>
               ELSE /\ destinations' =
                         [destinations EXCEPT ![d] =
                             Append(@, SubscriptionDestination(chat_id, creator_id,
                                                               op.now, FALSE))]
                    /\ ops' = [ops EXCEPT ![h] = returned(op, "ok")]
                    /\ save
          ELSE /\ ops' = [ops EXCEPT ![h] = [op EXCEPT !.pc = "copytree"]]
               /\ UNCHANGED << destinations, saved >>

\* create_subscription lines 206-220: copytree returned (or raised, when the source
\* directory is gone); the Subscription is built and appended and delete_download is
\* entered
CopytreeDone(h) ==
    /\ UNCHANGED saving
    /\ stop_pc # "returned"
    /\ ops[h].pc = "copytree"
    /\ UNCHANGED << clock, running, loop_pc, snapshot, idx, stop_pc, cons, trackers,
                    installed, saved >>
    /\ LET op == ops[h]
           d == op.d
           n == fresh
       IN IF ~storage[d]
          THEN /\ ops' = [ops EXCEPT ![h] = finished(h, "OSError")]
               /\ UNCHANGED << subscriptions, last_check_date, last_successful_check_date,
                               failed_checks, destinations, files, num_files,
                               active_download, complete_downloads, kind, link, storage,
                               zip_lock >>
          ELSE /\ Unused # {}
               /\ kind' = [kind EXCEPT ![n] = "Subscription"]
               /\ link' = [link EXCEPT ![n] = link[d]]
               /\ storage' = [storage EXCEPT ![n] = TRUE]
               /\ files' = [files EXCEPT ![n] = files[d]]
               /\ num_files' = [num_files EXCEPT ![n] = files[d]]
               /\ last_check_date' = [last_check_date EXCEPT ![n] = op.now]
               /\ last_successful_check_date' =
                       [last_successful_check_date EXCEPT ![n] = op.now]
               /\ failed_checks' = [failed_checks EXCEPT ![n] = 0]
               /\ active_download' = [active_download EXCEPT ![n] = 0]
               /\ destinations' =
                       [destinations EXCEPT ![n] =
                           << SubscriptionDestination(op.chat_id, op.creator_id,
                                                      op.now, FALSE) >>]
               /\ subscriptions' = Append(subscriptions, n)
               /\ IF \A i \in 1..Len(complete_downloads) : complete_downloads[i] # d
                  THEN /\ ops' = [ops EXCEPT ![h] =
                                      [finished(h, "ValueError") EXCEPT !.new = n]]
                       /\ UNCHANGED << complete_downloads, zip_lock >>
                  ELSE delete_download(h, [op EXCEPT !.new = n], d)

\* SubscriptionManager.remove_subscription lines 225-234: up to the return, the raise, or
\* the await of rmtree under the zip lock
RemoveSubscription(h, lnk, chat_id) ==
    /\ UNCHANGED saving
    /\ stop_pc = "none"
    /\ ops[h].pc = "idle" /\ CallsMade < MaxCalls
    /\ UNCHANGED << clock, running, loop_pc, snapshot, idx, stop_pc, cons,
                    last_check_date, last_successful_check_date, failed_checks, files,
                    num_files, trackers, active_download, installed,
                    complete_downloads, kind, link, storage >>
    /\ LET sub == sub_for_link(lnk)
           k == sub_for_link_and_chat(lnk, chat_id)
           op == [called(h, "remove_subscription") EXCEPT
                     !.link = lnk, !.d = sub, !.chat_id = chat_id]
       IN IF k = 0
          THEN /\ ops' = [ops EXCEPT ![h] = returned(op, "ValueError")]
               /\ UNCHANGED << subscriptions, destinations, zip_lock, saved >>
          ELSE /\ destinations' = [destinations EXCEPT ![sub] = ListRemoveAt(@, k)]
               /\ IF Len(destinations[sub]) = 1
                  THEN /\ subscriptions' = ListRemove(subscriptions, sub)
                       /\ UNCHANGED saved
                       /\ IF ~locked(sub)
                          THEN /\ zip_lock' = [zip_lock EXCEPT ![sub] = h]
                               /\ ops' = [ops EXCEPT ![h] = [op EXCEPT !.pc = "rmtree"]]
                          ELSE /\ UNCHANGED zip_lock
                               /\ ops' = [ops EXCEPT ![h] = [op EXCEPT !.pc = "wait_lock"]]
                  ELSE /\ UNCHANGED << subscriptions, zip_lock >>
                       /\ ops' = [ops EXCEPT ![h] = returned(op, "ok")]
                       /\ save

\* SubscriptionManager.pause_subscription
PauseSubscription(h, lnk, chat_id, pause) ==
    /\ UNCHANGED saving
    /\ stop_pc = "none"
    /\ ops[h].pc = "idle" /\ CallsMade < MaxCalls
    /\ UNCHANGED << clock, running, subscriptions, loop_pc, snapshot, idx, stop_pc, cons,
                    last_check_date, last_successful_check_date, failed_checks, files,
                    num_files, active_download, installed,
                    complete_downloads, kind, link, storage, zip_lock >>
    /\ LET sub == sub_for_link(lnk)
           k == sub_for_link_and_chat(lnk, chat_id)
           op == [called(h, "pause_subscription") EXCEPT
                     !.link = lnk, !.d = sub, !.chat_id = chat_id, !.pause = pause]
       IN IF k = 0
          THEN /\ ops' = [ops EXCEPT ![h] = returned(op, "ValueError")]
               /\ UNCHANGED << destinations, trackers, saved >>
          ELSE /\ destinations' = [destinations EXCEPT ![sub][k].paused = pause]
               /\ trackers' = [trackers EXCEPT ![sub] =
                                   [t \in 1..Len(@) |->
                                       IF pause /\ @[t].fanout = "running"
                                       THEN [@[t] EXCEPT !.paused_during = @ \cup {chat_id}]
                                       ELSE @[t]]]
               /\ ops' = [ops EXCEPT ![h] = returned(op, "ok")]
               /\ save

\* Download.zip lines 132-135, called by Bot.handle_zip_callback: the zip directory is
\* made and the zip lock is asked for
ZipStart(h, d) ==
    /\ UNCHANGED saving
    /\ stop_pc = "none"
    /\ ops[h].pc = "idle" /\ CallsMade < MaxCalls
    /\ kind[d] # "none"
    /\ ops' = [ops EXCEPT ![h] = [called(h, "zip") EXCEPT !.pc = "wait_lock", !.d = d,
                                                            !.zip_dir = TRUE]]
    /\ UNCHANGED << clock, running, subscriptions, loop_pc, snapshot, idx, stop_pc, cons,
                    last_check_date, last_successful_check_date, failed_checks,
                    destinations, files, num_files, trackers, active_download,
                    installed, saved, complete_downloads, kind, link, storage, zip_lock >>

\* asyncio.Lock.acquire returns to a handler that waited for Download.zip_lock
LockAcquired(h) ==
    /\ UNCHANGED saving
    /\ stop_pc # "returned"
    /\ ops[h].pc = "wait_lock"
    /\ ~locked(ops[h].d)
    /\ zip_lock' = [zip_lock EXCEPT ![ops[h].d] = h]
    /\ ops' = [ops EXCEPT ![h].pc = IF ops[h].kind = "zip" THEN "zipping" ELSE "rmtree"]
    /\ UNCHANGED << clock, running, subscriptions, loop_pc, snapshot, idx, stop_pc, cons,
                    last_check_date, last_successful_check_date, failed_checks,
                    destinations, files, num_files, trackers, active_download,
                    installed, saved, complete_downloads, kind, link, storage >>

\* Download.zip lines 141-142: `finally: await aioshutil.rmtree(zip_dir)`, reached from
\* the try block on return and on every exception thrown in it or into it
zip_finally(h, result) ==
    [finished(h, result) EXCEPT !.zip_dir = FALSE]

\* Download.zip lines 136-142: the archive was made and used, the scope is left
ZipEnd(h) ==
    /\ UNCHANGED saving
    /\ stop_pc # "returned"
    /\ ops[h].pc = "zipping"
    /\ zip_lock' = [zip_lock EXCEPT ![ops[h].d] = "free"]
    /\ ops' = [ops EXCEPT ![h] = zip_finally(h, "ok")]
    /\ UNCHANGED << clock, running, subscriptions, loop_pc, snapshot, idx, stop_pc, cons,
                    last_check_date, last_successful_check_date, failed_checks,
                    destinations, files, num_files, trackers, active_download,
                    installed, saved, complete_downloads, kind, link, storage >>

\* aioshutil.rmtree(path) returned under the zip lock (or raised, when the directory
\* does not exist): delete_download line 179 returns to its caller, create_subscription
\* and remove_subscription go on to save
RmtreeDone(h) ==
    /\ UNCHANGED saving
    /\ stop_pc # "returned"
    /\ ops[h].pc = "rmtree"
    /\ UNCHANGED << clock, running, subscriptions, loop_pc, snapshot, idx, stop_pc, cons,
                    last_check_date, last_successful_check_date, failed_checks,
                    destinations, num_files, trackers, active_download,
                    installed, complete_downloads, kind, link >>
    /\ zip_lock' = [zip_lock EXCEPT ![ops[h].d] = "free"]
    /\ IF ~storage[ops[h].d]
       THEN /\ ops' = [ops EXCEPT ![h] = finished(h, "OSError")]
            /\ UNCHANGED << storage, files, saved >>
       ELSE /\ storage' = [storage EXCEPT ![ops[h].d] = FALSE]
            /\ files' = [files EXCEPT ![ops[h].d] = 0]
            /\ ops' = [ops EXCEPT ![h] = finished(h, "ok")]
            /\ IF ops[h].kind = "delete_download" THEN UNCHANGED saved ELSE save

\* the ways out of the try block of Download.zip other than a normal exit: run_cmd
\* raised, the body of the caller's `async with` raised, or the handler task was
\* cancelled at an await inside the block
ZipExits == {"CmdException", "BodyException", "CancelledError"}

\* Download.zip lines 136-142 left by an exception: the finally clause runs, the zip
\* lock is released and the exception goes on to the caller
ZipRaise(h, res) ==
    /\ UNCHANGED saving
    /\ stop_pc # "returned"
    /\ ops[h].pc = "zipping"
    /\ zip_lock' = [zip_lock EXCEPT ![ops[h].d] = "free"]
    /\ ops' = [ops EXCEPT ![h] = zip_finally(h, res)]
    /\ UNCHANGED << clock, running, subscriptions, loop_pc, snapshot, idx, stop_pc, cons,
                    last_check_date, last_successful_check_date, failed_checks,
                    destinations, files, num_files, trackers, active_download,
                    installed, saved, complete_downloads, kind, link, storage >>

\* the handler task is cancelled while Download.zip waits at `async with
\* self.zip_lock` (line 135): CancelledError is raised by Lock.acquire, outside the
\* try block of line 136, so the finally clause is not entered
ZipCancel(h) ==
    /\ UNCHANGED saving
    /\ stop_pc # "returned"
    /\ ops[h].kind = "zip" /\ ops[h].pc = "wait_lock"
    /\ locked(ops[h].d)
    /\ ops' = [ops EXCEPT ![h] = finished(h, "CancelledError")]
    /\ UNCHANGED << clock, running, subscriptions, loop_pc, snapshot, idx, stop_pc, cons,
                    last_check_date, last_successful_check_date, failed_checks,
                    destinations, files, num_files, trackers, active_download,
                    installed, saved, complete_downloads, kind, link, storage, zip_lock >>

Fetching ==
    \/ \E d \in Downloads : \E t \in 1..MaxRuns : InstallOk(d, t)
    \/ \E d \in Downloads : \E t \in 1..MaxRuns : InstallFail(d, t)
    \/ \E d \in Downloads : \E t \in 1..MaxRuns : Emit(d, t)
    \/ \E d \in Downloads : \E t \in 1..MaxRuns :
         \E res \in {"ok", "CmdException"} : FetchEnd(d, t, res)
    \/ \E d \in Downloads : \E t \in 1..MaxRuns : UploadDone(d, t)
    \/ \E d \in Downloads : \E t \in 1..MaxRuns : SendDone(d, t)
    \/ \E d \in Downloads : \E t \in 1..MaxRuns : DeliveryFail(d, t)

Polling ==
    \/ Start
    \/ LoopSkip
    \/ LoopPoll
    \/ LoopCycleEnd
    \/ LoopWake

\* one subscription with two destinations, the polling loop and on-demand requests
Next ==
    \/ Tick
    \/ Polling
    \/ Fetching
    \/ \E d \in Range(subscriptions) : UserDownload(d)
    \/ \E c \in Consumers : TrackWake(c)

\* the same subscription when it is due at the start, with destinations being paused
\* and resumed while it is fetched and fanned out
InitFan ==
    /\ clock = SUB_UPDATE_AFTER
    /\ running = FALSE
    /\ subscriptions = InitSubscriptions
    /\ loop_pc = "init"
    /\ snapshot = <<>>
    /\ idx = 0
    /\ stop_pc = "none"
    /\ cons = [c \in Consumers |-> IdleCons]
    /\ last_check_date = [d \in Downloads |-> 0]
    /\ last_successful_check_date = [d \in Downloads |-> 0]
    /\ failed_checks = [d \in Downloads |-> 0]
    /\ destinations = InitDestinations
    /\ files = [d \in Downloads |-> 0]
    /\ num_files = [d \in Downloads |-> 0]
    /\ trackers = [d \in Downloads |-> <<>>]
    /\ active_download = [d \in Downloads |-> 0]
    /\ installed = FALSE
    /\ saved = config_data(InitSubscriptions, << >>, InitLink, [d \in Downloads |-> 0],
                           [d \in Downloads |-> 0], [d \in Downloads |-> 0],
                           InitDestinations)
    /\ InitObjects(InitSubscriptions, << >>)

NextFan ==
    \/ Polling
    \/ Fetching
    \/ \E d \in Range(subscriptions) : UserDownload(d)
    \/ \E c \in Consumers : TrackWake(c)
    \/ \E d \in Downloads : \E chat_id \in {1, 2} : \E pause \in BOOLEAN :
         Pause(d, chat_id, pause)

\* two subscriptions, the polling loop and the shutdown
InitTwo ==
    /\ clock = 0
    /\ running = FALSE
    /\ subscriptions = InitSubscriptionsTwo
    /\ loop_pc = "init"
    /\ snapshot = <<>>
    /\ idx = 0
    /\ stop_pc = "none"
    /\ cons = [c \in Consumers |-> IdleCons]
    /\ last_check_date = [d \in Downloads |-> 0]
    /\ last_successful_check_date = [d \in Downloads |-> 0]
    /\ failed_checks = [d \in Downloads |-> 0]
    /\ destinations = InitDestinations
    /\ files = [d \in Downloads |-> 0]
    /\ num_files = [d \in Downloads |-> 0]
    /\ trackers = [d \in Downloads |-> <<>>]
    /\ active_download = [d \in Downloads |-> 0]
    /\ installed = FALSE
    /\ saved = config_data(InitSubscriptionsTwo, << >>, InitLink, [d \in Downloads |-> 0],
                           [d \in Downloads |-> 0], [d \in Downloads |-> 0],
                           InitDestinations)
    /\ InitObjects(InitSubscriptionsTwo, << >>)

\* a from_json that does not read the paused flag of a destination
destination_from_json_unpaused(data) ==
    SubscriptionDestination(data.chat_id, data.creator_id, data.created_date, FALSE)

\* SubscriptionDestination.from_json
destination_from_json(data) ==
    SubscriptionDestination(data.chat_id, data.creator_id, data.created_date, data.paused)

\* the entry of the saved file that Subscription.from_json or
\* CompleteDownload.from_json builds the Download of path d from
saved_entry(d) ==
    IF \E i \in 1..Len(saved.subscriptions) : saved.subscriptions[i].path = d
    THEN CHOOSE e \in Range(saved.subscriptions) : e.path = d
    ELSE CHOOSE e \in Range(saved.complete_downloads) : e.path = d

\* the paths of the Downloads in the saved file
SavedPaths ==
    {saved.subscriptions[i].path : i \in 1..Len(saved.subscriptions)}
        \cup {saved.complete_downloads[i].path : i \in 1..Len(saved.complete_downloads)}

\* Subscription.from_json and CompleteDownload.from_json over the saved file, for the
\* field f (a CompleteDownload has no failed_checks, destinations or
\* last_successful_check_date)
from_json(f, old) ==
    [d \in Downloads |->
        IF d \in SavedPaths /\ f \in DOMAIN saved_entry(d)
        THEN IF f = "destinations"
             THEN [k \in 1..Len(saved_entry(d).destinations) |->
                      destination_from_json(saved_entry(d).destinations[k])]
             ELSE saved_entry(d)[f]
        ELSE old[d]]

\* the class of the Download objects that SubscriptionManager.__init__ builds: a
\* Download that is not in the file is not built again ("gone")
loaded_kind ==
    [d \in Downloads |->
        IF \E i \in 1..Len(saved.subscriptions) : saved.subscriptions[i].path = d
        THEN "Subscription"
        ELSE IF \E i \in 1..Len(saved.complete_downloads) :
                    saved.complete_downloads[i].path = d
        THEN "CompleteDownload"
        ELSE IF kind[d] = "none" THEN "none" ELSE "gone"]

\* the process has exited after stop() and is started again:
\* SubscriptionManager.__init__ reads subscriptions.json
Restart ==
    /\ UNCHANGED saving
    /\ stop_pc = "returned"
    /\ subscriptions' = [i \in 1..Len(saved.subscriptions) |-> saved.subscriptions[i].path]
    /\ complete_downloads' =
            [i \in 1..Len(saved.complete_downloads) |-> saved.complete_downloads[i].path]
    /\ last_check_date' = from_json("last_check_date", last_check_date)
    /\ last_successful_check_date' =
            from_json("last_successful_check_date", last_successful_check_date)
    /\ failed_checks' = from_json("failed_checks", failed_checks)
    /\ destinations' = from_json("destinations", destinations)
    /\ running' = FALSE
    /\ loop_pc' = "init"
    /\ snapshot' = << >>
    /\ idx' = 0
    /\ stop_pc' = "none"
    /\ cons' = [c \in Consumers |-> IdleCons]
    /\ trackers' = [d \in Downloads |-> << >>]
    /\ active_download' = [d \in Downloads |-> 0]
    /\ num_files' = files
    /\ installed' = FALSE
    /\ ops' = [h \in Handlers |-> IdleOp]
    /\ zip_lock' = [d \in Downloads |-> "free"]
    /\ kind' = loaded_kind
    /\ link' = from_json("link", link)
    /\ UNCHANGED << clock, files, saved, storage >>

NextTwo ==
    \/ Tick
    \/ Polling
    \/ LoopReturn
    \/ Fetching
    \/ TrackWake("loop")
    \/ StopSignal
    \/ StopFinish
    \/ Restart

\* the links and chats the bot callbacks pass to the manager
RequestLinks == {LinkStr(<< "A" >>), LinkList(<< "A" >>), LinkStr(<< "B", "-x" >>),
                 LinkList(<< "B", "-x" >>)}
RequestChats == {1, 2}
RequestCreators == {1, 2}

\* a Subscription with two destinations and a CompleteDownload, with two bot callbacks
\* calling the manager concurrently
InitManage ==
    /\ clock = 0
    /\ running = FALSE
    /\ subscriptions = InitSubscriptions
    /\ loop_pc = "init"
    /\ snapshot = <<>>
    /\ idx = 0
    /\ stop_pc = "none"
    /\ cons = [c \in Consumers |-> IdleCons]
    /\ last_check_date = [d \in Downloads |-> 0]
    /\ last_successful_check_date = [d \in Downloads |-> 0]
    /\ failed_checks = [d \in Downloads |-> 0]
    /\ destinations = [InitDestinations EXCEPT ![2] = << >>]
    /\ files = [d \in Downloads |-> 0]
    /\ num_files = [d \in Downloads |-> 0]
    /\ trackers = [d \in Downloads |-> <<>>]
    /\ active_download = [d \in Downloads |-> 0]
    /\ installed = TRUE
    /\ saved = config_data(InitSubscriptions, << 2 >>, InitLink, [d \in Downloads |-> 0],
                           [d \in Downloads |-> 0], [d \in Downloads |-> 0],
                           [InitDestinations EXCEPT ![2] = << >>])
    /\ InitObjects(InitSubscriptions, << 2 >>)

NextManage ==
    \/ \E h \in Handlers : \E lnk \in RequestLinks : CreateDownload(h, lnk)
    \/ \E h \in Handlers : \E d \in Downloads : DeleteDownload(h, d)
    \/ \E h \in Handlers : \E chat_id \in RequestChats : \E creator_id \in RequestCreators :
         \E d \in Downloads : CreateSubscription(h, chat_id, creator_id, d)
    \/ \E h \in Handlers : CopytreeDone(h)
    \/ \E h \in Handlers : \E lnk \in RequestLinks : \E chat_id \in RequestChats :
         RemoveSubscription(h, lnk, chat_id)
    \/ \E h \in Handlers : \E lnk \in RequestLinks : \E chat_id \in RequestChats :
         \E pause \in BOOLEAN : PauseSubscription(h, lnk, chat_id, pause)
    \/ \E h \in Handlers : \E d \in Downloads : ZipStart(h, d)
    \/ \E h \in Handlers : LockAcquired(h)
    \/ \E h \in Handlers : ZipEnd(h)
    \/ \E h \in Handlers : RmtreeDone(h)

\* the CompleteDownload is fetched on demand while one bot callback subscribes to it
NextSubscribe ==
    \/ \E chat_id \in RequestChats : \E creator_id \in RequestCreators :
         \E d \in Downloads : CreateSubscription("h1", chat_id, creator_id, d)
    \/ CopytreeDone("h1")
    \/ RmtreeDone("h1")
    \/ \E d \in Range(complete_downloads) : trackers[d] = << >> /\ UserDownload(d)
    \/ \E d \in Downloads : \E t \in 1..MaxRuns : Emit(d, t)
    \/ \E d \in Downloads : \E t \in 1..MaxRuns :
         \E res \in {"ok", "CmdException"} : FetchEnd(d, t, res)

\* ---- SubscriptionManager.save step by step, and a crash of the process ----------

\* the manager's lists as save() lines 133-136 collect them
current_config ==
    config_data(subscriptions, complete_downloads, link, last_check_date, failed_checks,
                last_successful_check_date, destinations)

\* an open for writing that truncates subscriptions.json itself
open_w_canonical(s, data) ==
    [s EXCEPT !.pc = "dump", !.canonical = "empty", !.bak_data = data]

\* save() line 137: open(CONFIG_FILE_BAK, "w") creates or truncates the .bak file
open_w(s, data) ==
    [s EXCEPT !.pc = "dump", !.bak = "empty", !.bak_data = data]

\* pause_subscription lines 237-240, then save() up to the open of line 137
PauseAndOpen(lnk, chat_id, pause) ==
    /\ stop_pc = "none"
    /\ saving.pc = "idle"
    /\ sub_for_link_and_chat(lnk, chat_id) # 0
    /\ destinations' = [destinations EXCEPT
                            ![sub_for_link(lnk)][sub_for_link_and_chat(lnk, chat_id)].paused
                                = pause]
    /\ UNCHANGED << clock, running, subscriptions, loop_pc, snapshot, idx, stop_pc, cons,
                    last_check_date, last_successful_check_date, failed_checks, files,
                    num_files, trackers, active_download, installed, saved,
                    complete_downloads, kind, link, storage, zip_lock, ops >>
    /\ saving' = open_w(saving, current_config')

\* create_download lines 160-169 when no Download matches, then save() up to the open
\* of line 137
CreateAndOpen(lnk) ==
    /\ stop_pc = "none"
    /\ saving.pc = "idle"
    /\ download_for_link(lnk) = 0
    /\ Unused # {}
    /\ kind' = [kind EXCEPT ![fresh] = "CompleteDownload"]
    /\ link' = [link EXCEPT ![fresh] = lnk]
    /\ last_check_date' = [last_check_date EXCEPT ![fresh] = clock]
    /\ complete_downloads' = Append(complete_downloads, fresh)
    /\ UNCHANGED << clock, running, subscriptions, loop_pc, snapshot, idx, stop_pc, cons,
                    last_successful_check_date, failed_checks, destinations, files,
                    num_files, trackers, active_download, installed, saved, storage,
                    zip_lock, ops >>
    /\ saving' = open_w(saving, current_config')

\* save() line 138: json.dump has written a part of the text
SaveWrite ==
    /\ saving.pc = "dump" /\ saving.bak = "empty"
    /\ saving' = [saving EXCEPT !.bak = "partial"]
    /\ UNCHANGED << clock, running, subscriptions, loop_pc, snapshot, idx, stop_pc, cons,
                    last_check_date, last_successful_check_date, failed_checks,
                    destinations, files, num_files, trackers, active_download, installed,
                    saved, complete_downloads, kind, link, storage, zip_lock, ops >>

\* save() line 138: json.dump has written the rest and the with block closes the file
SaveClose ==
    /\ saving.pc = "dump" /\ saving.bak = "partial"
    /\ saving' = [saving EXCEPT !.bak = "whole", !.pc = "replace"]
    /\ UNCHANGED << clock, running, subscriptions, loop_pc, snapshot, idx, stop_pc, cons,
                    last_check_date, last_successful_check_date, failed_checks,
                    destinations, files, num_files, trackers, active_download, installed,
                    saved, complete_downloads, kind, link, storage, zip_lock, ops >>

\* save() line 139: os.replace moves the .bak file over subscriptions.json
SaveReplace ==
    /\ saving.pc = "replace"
    /\ saved' = saving.bak_data
    /\ saving' = [NotSaving EXCEPT !.canonical = saving.bak]
    /\ UNCHANGED << clock, running, subscriptions, loop_pc, snapshot, idx, stop_pc, cons,
                    last_check_date, last_successful_check_date, failed_checks,
                    destinations, files, num_files, trackers, active_download, installed,
                    complete_downloads, kind, link, storage, zip_lock, ops >>

\* the process is killed at any point and started again: SubscriptionManager.__init__
\* lines 94-104 reads subscriptions.json (json.load needs a whole text); the .bak file
\* stays as the crash left it
CrashRestart ==
    /\ saving.canonical = "whole"
    /\ subscriptions' = [i \in 1..Len(saved.subscriptions) |-> saved.subscriptions[i].path]
    /\ complete_downloads' =
            [i \in 1..Len(saved.complete_downloads) |-> saved.complete_downloads[i].path]
    /\ kind' = loaded_kind
    /\ link' = from_json("link", link)
    /\ last_check_date' = from_json("last_check_date", last_check_date)
    /\ last_successful_check_date' =
            from_json("last_successful_check_date", last_successful_check_date)
    /\ failed_checks' = from_json("failed_checks", failed_checks)
    /\ destinations' = from_json("destinations", destinations)
    /\ saving' = [saving EXCEPT !.pc = "idle"]
    /\ UNCHANGED << clock, running, loop_pc, snapshot, idx, stop_pc, cons, files,
                    num_files, trackers, active_download, installed, saved, storage,
                    zip_lock, ops >>

\* destinations are paused and resumed and links are registered, every change is saved,
\* and the process may be killed and started again at any point
NextSave ==
    \/ \E lnk \in RequestLinks : \E chat_id \in RequestChats : \E pause \in BOOLEAN :
         PauseAndOpen(lnk, chat_id, pause)
    \/ \E lnk \in RequestLinks : CreateAndOpen(lnk)
    \/ SaveWrite
    \/ SaveClose
    \/ SaveReplace
    \/ CrashRestart

\* the bot is shut down while the polling loop runs and links are fetched on demand:
\* a Subscription that is not due, a CompleteDownload, the fetch tool not installed yet
InitStop ==
    /\ clock = 0
    /\ running = FALSE
    /\ subscriptions = InitSubscriptions
    /\ loop_pc = "init"
    /\ snapshot = <<>>
    /\ idx = 0
    /\ stop_pc = "none"
    /\ cons = [c \in Consumers |-> IdleCons]
    /\ last_check_date = [d \in Downloads |-> 0]
    /\ last_successful_check_date = [d \in Downloads |-> 0]
    /\ failed_checks = [d \in Downloads |-> 0]
    /\ destinations = [InitDestinations EXCEPT ![2] = << >>]
    /\ files = [d \in Downloads |-> 0]
    /\ num_files = [d \in Downloads |-> 0]
    /\ trackers = [d \in Downloads |-> <<>>]
    /\ active_download = [d \in Downloads |-> 0]
    /\ installed = FALSE
    /\ saved = config_data(InitSubscriptions, << 2 >>, InitLink, [d \in Downloads |-> 0],
                           [d \in Downloads |-> 0], [d \in Downloads |-> 0],
                           [InitDestinations EXCEPT ![2] = << >>])
    /\ InitObjects(InitSubscriptions, << 2 >>)

NextStop ==
    \/ Start
    \/ LoopSkip
    \/ LoopCycleEnd
    \/ LoopWake
    \/ LoopReturn
    \/ \E d \in Range(all_downloads) : UserDownload(d)
    \/ Fetching
    \/ TrackWake("user")
    \/ StopSignal
    \/ StopFinish

\* ---- GalleryDLManager.rwlock: installs, updates and fetches ---------------------

\* aiorwlock hands the writer lock to a fetch that waited for it inside install_tool
WriterAcquired(d, t) ==
    /\ Awaited(d, t)
    /\ UNCHANGED mgmt
    /\ trackers[d][t].pc = "wait_writer"
    /\ ~WriterHeld
    /\ trackers' = [trackers EXCEPT ![d][t].pc = "install"]
    /\ UNCHANGED << clock, running, subscriptions, loop_pc, snapshot, idx, stop_pc, cons,
                    last_check_date, last_successful_check_date, failed_checks,
                    destinations, files, num_files, active_download, installed, saved >>

\* GalleryDLManager.update_tool / update_tool_prerelease called by
\* Bot.handle_update_callback: the writer lock is asked for
UpdateTool(h) ==
    /\ UNCHANGED saving
    /\ stop_pc = "none"
    /\ ops[h].pc = "idle" /\ CallsMade < MaxCalls
    /\ ops' = [ops EXCEPT ![h] = [called(h, "update_tool") EXCEPT
                                    !.pc = IF WriterHeld THEN "wait_writer" ELSE "pip"]]
    /\ UNCHANGED << clock, running, subscriptions, loop_pc, snapshot, idx, stop_pc, cons,
                    last_check_date, last_successful_check_date, failed_checks,
                    destinations, files, num_files, trackers, active_download,
                    installed, saved, complete_downloads, kind, link, storage, zip_lock >>

\* aiorwlock hands the writer lock to an update that waited for it
UpdateAcquired(h) ==
    /\ UNCHANGED saving
    /\ stop_pc # "returned"
    /\ ops[h].kind = "update_tool" /\ ops[h].pc = "wait_writer"
    /\ ~WriterHeld
    /\ ops' = [ops EXCEPT ![h].pc = "pip"]
    /\ UNCHANGED << clock, running, subscriptions, loop_pc, snapshot, idx, stop_pc, cons,
                    last_check_date, last_successful_check_date, failed_checks,
                    destinations, files, num_files, trackers, active_download,
                    installed, saved, complete_downloads, kind, link, storage, zip_lock >>

\* run_cmd(pip install -U ...) returned or raised CmdException inside update_tool: the
\* writer lock is released, last_update is set only when pip succeeded
UpdateEnd(h, res) ==
    /\ UNCHANGED saving
    /\ stop_pc # "returned"
    /\ ops[h].kind = "update_tool" /\ ops[h].pc = "pip"
    /\ installed' = (installed \/ res = "ok")
    /\ ops' = [ops EXCEPT ![h] = finished(h, res)]
    /\ UNCHANGED << clock, running, subscriptions, loop_pc, snapshot, idx, stop_pc, cons,
                    last_check_date, last_successful_check_date, failed_checks,
                    destinations, files, num_files, trackers, active_download,
                    saved, complete_downloads, kind, link, storage, zip_lock >>

\* fetches on demand while bot callbacks update the tool; the tool is not installed
\* at first
NextTool ==
    \/ \E d \in Range(all_downloads) : UserDownload(d)
    \/ Fetching
    \/ TrackWake("user")
    \/ \E d \in Downloads : \E t \in 1..MaxRuns : WriterAcquired(d, t)
    \/ \E h \in Handlers : UpdateTool(h)
    \/ \E h \in Handlers : UpdateAcquired(h)
    \/ \E h \in Handlers : \E res \in {"ok", "CmdException"} : UpdateEnd(h, res)

\* zips asked for by two bot callbacks, with every way out of the zip scope, while
\* Downloads are deleted
NextZip ==
    \/ \E h \in Handlers : \E d \in Downloads : ZipStart(h, d)
    \/ \E h \in Handlers : LockAcquired(h)
    \/ \E h \in Handlers : ZipEnd(h)
    \/ \E h \in Handlers : \E res \in ZipExits : ZipRaise(h, res)
    \/ \E h \in Handlers : ZipCancel(h)
    \/ \E h \in Handlers : \E d \in Downloads : DeleteDownload(h, d)
    \/ \E h \in Handlers : RmtreeDone(h)

\* the due subscription is polled while kill is called on its tracker at any point
NextKill ==
    \/ Polling
    \/ Fetching
    \/ \E d \in Downloads : KillCall(d)

\* two subscriptions are polled and the bot is shut down at any point
NextHalt ==
    \/ Tick
    \/ Polling
    \/ LoopReturn
    \/ Fetching
    \/ TrackWake("loop")
    \/ StopSignal
    \/ StopFinish

\* the steps of the runner task, which the event loop keeps resuming
RunnerStep ==
    \/ Polling
    \/ LoopReturn
    \/ Fetching
    \/ TrackWake("loop")

\* two subscriptions, both due
InitRemove ==
    /\ clock = SUB_UPDATE_AFTER
    /\ running = FALSE
    /\ subscriptions = InitSubscriptionsTwo
    /\ loop_pc = "init"
    /\ snapshot = <<>>
    /\ idx = 0
    /\ stop_pc = "none"
    /\ cons = [c \in Consumers |-> IdleCons]
    /\ last_check_date = [d \in Downloads |-> 0]
    /\ last_successful_check_date = [d \in Downloads |-> 0]
    /\ failed_checks = [d \in Downloads |-> 0]
    /\ destinations = InitDestinations
    /\ files = [d \in Downloads |-> 0]
    /\ num_files = [d \in Downloads |-> 0]
    /\ trackers = [d \in Downloads |-> <<>>]
    /\ active_download = [d \in Downloads |-> 0]
    /\ installed = FALSE
    /\ saved = config_data(InitSubscriptionsTwo, << >>, InitLink, [d \in Downloads |-> 0],
                           [d \in Downloads |-> 0], [d \in Downloads |-> 0],
                           InitDestinations)
    /\ InitObjects(InitSubscriptionsTwo, << >>)

\* the two subscriptions are polled while a bot callback unsubscribes chats
NextRemove ==
    \/ Polling
    \/ Fetching
    \/ \E lnk \in RequestLinks : \E chat_id \in RequestChats :
         RemoveSubscription("h1", lnk, chat_id)
    \/ RmtreeDone("h1")

\* Bot._download_link lines 254-271 with run() lines 53-56: the subprocess printed an
\* item, run() yielded it, and evt.edit raised in the body of the async for. The
\* exception leaves the async for (the except clause replies and raises again); the
\* generator of run() stays suspended at its yield and is closed by the event loop's
\* finaliser, which raises GeneratorExit there: `except Exception` at line 56 does not
\* catch it and run() is left before send_new_items and the finally clause
EmitEditRaises(d, t) ==
    /\ UNCHANGED saving
    /\ Awaited(d, t)
    /\ trackers[d][t].owner = "user"
    /\ UNCHANGED << complete_downloads, kind, link, zip_lock, ops >>
    /\ storage' = [storage EXCEPT ![d] = TRUE]
    /\ trackers[d][t].pc = "fetch" /\ trackers[d][t].proc = "running"
    /\ SumOver(files, Downloads) < MaxItems
    /\ LET line == files[d] + 1
       IN /\ files' = [files EXCEPT ![d] = line]
          /\ trackers' = [trackers EXCEPT ![d][t].lines_so_far = Append(@, line),
                                          ![d][t].pc = "closed"]
          /\ stream_end("user", d, body("user", cons["user"], << line >>), "raise")
    /\ UNCHANGED << clock, running, subscriptions, snapshot, stop_pc, destinations,
                    num_files, active_download, installed, saved >>

\* the subscription is fetched on demand and by the polling loop, and the edit of the
\* progress message can fail
NextAbandon ==
    \/ Polling
    \/ Fetching
    \/ \E d \in Range(subscriptions) : UserDownload(d)
    \/ \E c \in Consumers : TrackWake(c)
    \/ \E d \in Downloads : \E t \in 1..MaxRuns : EmitEditRaises(d, t)

SpecAbandon == InitFan /\ [][NextAbandon]_vars /\ WF_vars(Fetching)

\* a Subscription with one destination that is due, and a CompleteDownload
InitStamp ==
    /\ clock = SUB_UPDATE_AFTER
    /\ running = FALSE
    /\ subscriptions = InitSubscriptions
    /\ loop_pc = "init"
    /\ snapshot = <<>>
    /\ idx = 0
    /\ stop_pc = "none"
    /\ cons = [c \in Consumers |-> IdleCons]
    /\ last_check_date = [d \in Downloads |-> 0]
    /\ last_successful_check_date = [d \in Downloads |-> 0]
    /\ failed_checks = [d \in Downloads |-> 0]
    /\ destinations = [d \in Downloads |->
                          IF d = 1 THEN << SubscriptionDestination(2, 1, 0, FALSE) >>
                          ELSE << >>]
    /\ files = [d \in Downloads |-> 0]
    /\ num_files = [d \in Downloads |-> 0]
    /\ trackers = [d \in Downloads |-> <<>>]
    /\ active_download = [d \in Downloads |-> 0]
    /\ installed = FALSE
    /\ saved = config_data(InitSubscriptions, << 2 >>, InitLink, [d \in Downloads |-> 0],
                           [d \in Downloads |-> 0], [d \in Downloads |-> 0],
                           [d \in Downloads |->
                               IF d = 1 THEN << SubscriptionDestination(2, 1, 0, FALSE) >>
                               ELSE << >>])
    /\ InitObjects(InitSubscriptions, << 2 >>)

\* a Subscription and a CompleteDownload over time: polls, on-demand fetches, and one
\* bot callback that subscribes
NextStamp ==
    \/ Tick
    \/ Polling
    \/ Fetching
    \/ \E d \in Range(subscriptions) : UserDownload(d)
    \/ \E c \in Consumers : TrackWake(c)
    \/ \E d \in Downloads : \E t \in 1..MaxRuns : WriterAcquired(d, t)
    \/ \E d \in Range(complete_downloads) : CreateSubscription("h1", 1, 1, d)
    \/ CopytreeDone("h1")
    \/ RmtreeDone("h1")

SpecStamp == InitStamp /\ [][NextStamp]_vars

\* the subscription is fetched and fanned out while one bot callback adds and removes
\* its destinations
NextEdit ==
    \/ Polling
    \/ Fetching
    \/ \E chat_id \in RequestChats : \E creator_id \in RequestCreators :
         \E d \in Range(subscriptions) : CreateSubscription("h1", chat_id, creator_id, d)
    \/ \E lnk \in RequestLinks : \E chat_id \in RequestChats :
         RemoveSubscription("h1", lnk, chat_id)
    \/ RmtreeDone("h1")

SpecEdit == InitFan /\ [][NextEdit]_vars

\* two subscriptions, the polling loop and on-demand requests, the fetch tool not
\* installed at first
NextDue ==
    \/ Next
    \/ \E d \in Downloads : \E t \in 1..MaxRuns : WriterAcquired(d, t)

Spec == Init /\ [][Next]_vars

SpecStop == InitStop /\ [][NextStop]_vars

SpecSave == InitManage /\ [][NextSave]_vars

SpecTool == InitStop /\ [][NextTool]_vars

SpecZip == InitManage /\ [][NextZip]_vars

SpecDue == InitTwo /\ [][NextDue]_vars

SpecRemove == InitRemove /\ [][NextRemove]_vars

SpecHalt == InitTwo /\ [][NextHalt]_vars /\ WF_vars(RunnerStep)

\* the event loop keeps resuming the generator of run() while its consumer iterates it
SpecKill == InitFan /\ [][NextKill]_vars /\ WF_vars(Fetching)

SpecManage == InitManage /\ [][NextManage]_vars

SpecSubscribe == InitManage /\ [][NextSubscribe]_vars

SpecFan == InitFan /\ [][NextFan]_vars

SpecTwo == InitTwo /\ [][NextTwo]_vars

\* ---- the claims ---------------------------------------------------------------

Chats == {1, 2}

\* the trackers of Download d that are still objects of the program
Live(d) == {t \in 1..Len(trackers[d]) : trackers[d][t].pc # "collected"}

\* the items one run sent to a chat, in the order of the send_message calls
SentItems(T, chat_id) ==
    LET s == SelectSeq(T.sent, LAMBDA r : r.chat_id = chat_id)
    IN [i \in 1..Len(s) |-> s[i].item]

StrictlyIncreasing(s) == \A i \in 1..Len(s) : \A j \in 1..Len(s) : i < j => s[i] < s[j]

\* the destinations of d that were not paused at any point of the fan-out of run T
NeverPaused(d, T) ==
    {destinations[d][k].chat_id : k \in {m \in 1..Len(destinations[d]) :
        destinations[d][m].chat_id \notin T.paused_during}}

\* C1: under any interleaving of download() calls of the polling loop and of on-demand
\* requests, a Download has at most one ActiveDownload with complete == false, it is
\* the one in active_download, and at most one fetch subprocess of the Download runs.
C1_OneIncompleteTracker ==
    \A d \in Downloads :
        /\ Cardinality({t \in 1..Len(trackers[d]) : ~trackers[d][t].complete}) <= 1
        /\ \A t \in 1..Len(trackers[d]) :
                ~trackers[d][t].complete => t = active_download[d]
        /\ Cardinality({t \in 1..Len(trackers[d]) : trackers[d][t].proc = "running"}) <= 1

\* C1 witness: the polling loop and an on-demand caller iterate the same incomplete
\* tracker, one through run() and the other through track()
C1_Witness ==
    /\ cons["loop"].pc \in {"run", "track"}
    /\ cons["user"].pc \in {"run", "track"}
    /\ cons["loop"].pc # cons["user"].pc
    /\ cons["loop"].d = cons["user"].d
    /\ cons["loop"].t = cons["user"].t
    /\ ~trackers[cons["loop"].d][cons["loop"].t].complete
    /\ Len(trackers[cons["loop"].d][cons["loop"].t].lines_so_far) >= 1

\* C2 (as claimed): once a poll of the polling loop has ended without error
\* (the stream of download() ended), failed_checks of the polled Subscription is 0.
C2_SuccessResetsFailedChecks ==
    (cons["loop"].pc = "idle" /\ cons["loop"].outcome = "end")
        => failed_checks[cons["loop"].d] = 0

\* C3 (as claimed): in the step that ends a poll whose fetch subprocess failed
\* (nonzero exit code or idle timeout), failed_checks grows by one, last_check_date is
\* stamped with the current time and last_successful_check_date is left alone.
C3_FailedFetchIsCounted ==
    [][\A d \in Downloads : \A t \in 1..Len(trackers[d]) :
          ( /\ cons["loop"].pc = "run" /\ cons["loop"].d = d /\ cons["loop"].t = t
            /\ cons'["loop"].pc = "idle"
            /\ trackers'[d][t].result = "CmdException" )
          => /\ failed_checks'[d] = failed_checks[d] + 1
             /\ last_check_date'[d] = clock
             /\ last_successful_check_date'[d] = last_successful_check_date[d]]_vars

\* C4: the step in which the poll of one Subscription raises records the failure and
\* moves the for loop to the next Subscription of the same snapshot with running
\* untouched; a cycle ends only when the snapshot is exhausted or stop was signalled;
\* only stop() clears running; and after the sleep a running loop starts a new cycle.
C4_FailureDoesNotStopLoop ==
    [][/\ ( /\ cons["loop"].pc \in {"run", "track"}
            /\ cons'["loop"].pc = "idle" /\ cons'["loop"].outcome = "raise" )
          => /\ running' = running
             /\ loop_pc' = "head"
             /\ snapshot' = snapshot
             /\ idx' = idx + 1
             /\ failed_checks'[cons["loop"].d] = failed_checks[cons["loop"].d] + 1
       /\ (loop_pc \in {"head", "poll"} /\ loop_pc' \in {"sleep", "done"})
          => (loop_pc = "head" /\ (idx > Len(snapshot) \/ ~running))
       /\ (running /\ ~running') => stop_pc' = "joining"
       /\ (loop_pc = "sleep" /\ running /\ loop_pc' # "sleep")
          => (loop_pc' = "head" /\ idx' = 1)]_vars

\* C4 witness: the poll of the first Subscription raised in this cycle and the loop,
\* still running, is now fetching the second Subscription of the same snapshot
C4_Witness ==
    /\ running
    /\ snapshot = << 1, 2 >> /\ idx = 2
    /\ failed_checks[1] = 1 /\ last_check_date[1] = clock
    /\ trackers[1] # << >> /\ trackers[1][1].pc = "raised"
    /\ cons["loop"].pc = "run" /\ cons["loop"].d = 2

\* C5: a run calls send_new_items at most once, and exactly once when it ended; the
\* items sent to one chat are items of lines_so_far in discovery order, none twice;
\* and when the fan-out has returned, every destination that was not paused during it
\* has been sent exactly lines_so_far, whoever else tracked the fetch.
C5_FanOutOncePerRun ==
    \A d \in Downloads : \A t \in Live(d) :
        LET T == trackers[d][t]
        IN /\ T.fanouts <= 1
           /\ (T.pc = "done") => (T.fanouts = 1)
           /\ (T.fanout # "none") <=> (T.fanouts = 1)
           /\ \A chat_id \in Chats :
                /\ StrictlyIncreasing(SentItems(T, chat_id))
                /\ Range(SentItems(T, chat_id)) \subseteq Range(T.lines_so_far)
           /\ (T.fanout = "returned")
                => \A chat_id \in NeverPaused(d, T) : SentItems(T, chat_id) = T.lines_so_far

\* C5 witness: a fetch that discovered two items was fanned out to both destinations,
\* two sends each, while the other caller was tracking the same fetch
C5_Witness ==
    \E d \in Downloads : \E t \in Live(d) :
        /\ trackers[d][t].fanout = "returned"
        /\ Len(trackers[d][t].lines_so_far) = 2
        /\ \A chat_id \in Chats : SentItems(trackers[d][t], chat_id) = trackers[d][t].lines_so_far
        /\ \E c \in Consumers : cons[c].pc = "track" /\ cons[c].d = d /\ cons[c].t = t

\* C6: no send_message goes to a destination whose paused flag is set when the fan-out
\* reaches it; the destinations not paused during the fan-out get every item; and a
\* poll that ended has stamped last_check_date whatever the paused flags are.
C6_PausedDestinationSkipped ==
    /\ \A d \in Downloads : \A t \in Live(d) :
        LET T == trackers[d][t]
        IN /\ \A i \in 1..Len(T.sent) : ~T.sent[i].paused
           /\ (T.fanout = "returned")
                => \A chat_id \in Chats \ T.paused_during :
                     \/ \A k \in 1..Len(destinations[d]) : destinations[d][k].chat_id # chat_id
                     \/ SentItems(T, chat_id) = T.lines_so_far
    /\ (cons["loop"].pc = "idle" /\ cons["loop"].outcome \in {"end", "break"})
        => last_check_date[cons["loop"].d] = clock

\* C6 witness: chat 2 is paused, the poll found an item, chat 1 was sent it and chat 2
\* nothing, and last_check_date has advanced
C6_Witness ==
    \E t \in Live(1) :
        /\ trackers[1][t].fanout = "returned"
        /\ trackers[1][t].owner = "loop"
        /\ trackers[1][t].paused_during = {2}
        /\ destinations[1][2].paused
        /\ Len(trackers[1][t].lines_so_far) >= 1
        /\ SentItems(trackers[1][t], 1) = trackers[1][t].lines_so_far
        /\ SentItems(trackers[1][t], 2) = << >>
        /\ cons["loop"].pc = "idle" /\ cons["loop"].outcome = "end"
        /\ last_check_date[1] = clock /\ last_check_date[1] > 0

\* C7: when send_new_items raised, the tracker is complete, run() has ended without
\* raising, its owner is no longer waiting on it, and lines_so_far is exactly the
\* sequence of items the fetch wrote, in order.
C7_FanOutFailureStillCompletes ==
    \A d \in Downloads : \A t \in Live(d) :
        LET T == trackers[d][t]
        IN (T.fanout = "raised")
            => /\ T.complete
               /\ T.pc = "done"
               /\ ~(cons[T.owner].pc = "run" /\ cons[T.owner].d = d /\ cons[T.owner].t = t)
               /\ T.lines_so_far = [i \in 1..Len(T.lines_so_far) |-> Len(T.lines_at_start) + i]
               /\ (t = active_download[d])
                    => files[d] = Len(T.lines_at_start) + Len(T.lines_so_far)

\* C7 witness: the fan-out of two items raised after the first send
C7_Witness ==
    \E d \in Downloads : \E t \in Live(d) :
        /\ trackers[d][t].fanout = "raised"
        /\ Len(trackers[d][t].lines_so_far) = 2
        /\ Len(trackers[d][t].sent) = 1
        /\ trackers[d][t].complete

\* C8 (as claimed): a tracker whose run() is over, by its end or by an exception of
\* download_cmd, is complete, so that the next download() starts a new fetch.
C8_FailedFetchReturnsToIdle ==
    \A d \in Downloads : \A t \in 1..Len(trackers[d]) :
        trackers[d][t].pc \in {"done", "raised"} => trackers[d][t].complete

\* complete is true only when the fan-out has been attempted
CompleteOnlyAfterFanOut ==
    \A d \in Downloads : \A t \in Live(d) :
        /\ trackers[d][t].complete => trackers[d][t].fanout \in {"returned", "raised"}
        /\ trackers[d][t].fanout = "running" => ~trackers[d][t].complete

\* C9: complete never goes back to false; it is true only when send_new_items has
\* returned or raised; and while the fan-out is in progress complete is false and
\* no download() call starts another fetch of the Download: the tracker stays the
\* active one, so callers get track() views of it.
C9_CompleteOnceAfterFanOut ==
    [][/\ CompleteOnlyAfterFanOut'
       /\ \A d \in Downloads : \A t \in 1..Len(trackers[d]) :
            /\ Len(trackers'[d]) >= Len(trackers[d])
            /\ trackers[d][t].complete => trackers'[d][t].complete
            /\ (trackers[d][t].fanout = "running")
                 => /\ Len(trackers'[d]) = Len(trackers[d])
                    /\ active_download'[d] = t]_vars

\* C9 witness: the fan-out is under way, one item has been sent, complete is false and
\* an on-demand caller has a track() view of the run
C9_Witness ==
    \E d \in Downloads : \E t \in Live(d) :
        /\ trackers[d][t].fanout = "running"
        /\ Len(trackers[d][t].sent) >= 1
        /\ ~trackers[d][t].complete
        /\ cons["user"].pc = "track" /\ cons["user"].d = d /\ cons["user"].t = t

\* C10 (as claimed): the first batch a track() watcher receives is exactly the K items
\* the fetch had produced when it joined.
C10_FirstBatchIsProducedItems ==
    \A c \in Consumers :
        cons[c].pc = "track" => cons[c].batches[1] = cons[c].joined_at

\* C10 (amended): the first batch of a track() watcher is lines_at_start, the second is
\* exactly the K items produced when it joined, in order, and what it has received
\* after that are the items appended behind them, each once and in order.
C10_TrackReplaysThenTails ==
    \A c \in Consumers :
        cons[c].pc = "track" =>
            LET r == cons[c]
                T == trackers[r.d][r.t]
                K == Len(r.joined_at)
            IN /\ r.batches[1] = T.lines_at_start
               /\ r.batches[2] = r.joined_at
               /\ r.joined_at = SubSeq(T.lines_so_far, 1, K)
               /\ K <= r.high_water_mark /\ r.high_water_mark <= Len(T.lines_so_far)
               /\ r.new_items = T.lines_at_start \o r.joined_at
                                  \o SubSeq(T.lines_so_far, K + 1, r.high_water_mark)

\* C10 witness: a watcher joined a fetch that had produced one item and has since
\* received a second one
C10_Witness ==
    \E c \in Consumers :
        /\ cons[c].pc = "track"
        /\ Len(cons[c].joined_at) = 1
        /\ cons[c].high_water_mark = 2

\* C11: a watcher whose track() stream ended has received, after lines_at_start,
\* exactly the final lines_so_far of the tracker, every item once and in order; the
\* stream ends in the first step the watcher takes with complete set (unless the
\* polling loop leaves it by its empty-batch guard on that last batch), and only then.
C11_TrackDeliversEveryItemOnce ==
    [][\A c \in Consumers :
        /\ ( /\ cons[c].pc = "track"
             /\ trackers[cons[c].d][cons[c].t].complete
             /\ cons'[c] # cons[c] )
           => /\ cons'[c].pc = "idle"
              /\ \/ cons'[c].outcome = "end"
                 \/ c = "loop" /\ cons'[c].outcome = "break" /\ cons[c].zero_batches >= EMPTY_BATCH_LIMIT
        /\ ( /\ cons[c].pc = "track"
             /\ cons'[c].pc = "idle" /\ cons'[c].outcome = "end" )
           => LET T == trackers'[cons[c].d][cons[c].t]
              IN /\ T.complete
                 /\ cons'[c].new_items = T.lines_at_start \o T.lines_so_far
                 /\ T.lines_so_far = [i \in 1..Len(T.lines_so_far) |-> Len(T.lines_at_start) + i]]_vars

\* C11 witness: the on-demand caller tracked a fetch of the polling loop to its end and
\* holds both items the fetch discovered
C11_Witness ==
    /\ cons["user"].pc = "idle" /\ cons["user"].outcome = "end"
    /\ cons["user"].d = 1 /\ cons["user"].t \in Live(1)
    /\ trackers[1][cons["user"].t].owner = "loop"
    /\ trackers[1][cons["user"].t].complete
    /\ Len(trackers[1][cons["user"].t].lines_so_far) = 2
    /\ cons["user"].new_items = trackers[1][cons["user"].t].lines_so_far

\* ---- the manager operations ---------------------------------------------------

\* the file on disk holds the manager's current lists
Persisted ==
    saved = config_data(subscriptions, complete_downloads, link, last_check_date,
                        failed_checks, last_successful_check_date, destinations)

InList(list, x) == \E i \in 1..Len(list) : list[i] = x

\* handler h enters the manager operation op in this step
Enters(h, op) ==
    /\ ops[h].pc = "idle"
    /\ ops'[h].kind = op
    /\ ops'[h].calls = ops[h].calls + 1

\* the manager operation op of handler h returns or raises in this step
Leaves(h, op) ==
    /\ ops'[h].pc = "idle"
    /\ ops'[h].kind = op
    /\ ops'[h] # ops[h]

\* C12: remove_subscription that removes the only remaining destination takes the
\* Subscription out of the manager's list, deletes its storage directory while holding
\* its zip lock, and saves; when other destinations remain, only the destination of the
\* chat is removed (and saved), and the Subscription and its storage stay.
C12_RemoveLastDestinationDeletes ==
    [][\A h \in Handlers :
        LET sub == ops'[h].d
            chat_id == ops'[h].chat_id
        IN /\ (Enters(h, "remove_subscription") /\ ops'[h].result # "ValueError") =>
                IF Len(destinations[sub]) = 1
                THEN /\ InList(subscriptions, sub) /\ ~InList(subscriptions', sub)
                     /\ ops'[h].pc \in {"rmtree", "wait_lock"}
                ELSE /\ destinations'[sub] =
                            SelectSeq(destinations[sub], LAMBDA x : x.chat_id # chat_id)
                     /\ Len(destinations'[sub]) = Len(destinations[sub]) - 1
                     /\ \A d \in Downloads \ {sub} : destinations'[d] = destinations[d]
                     /\ subscriptions' = subscriptions
                     /\ storage' = storage
                     /\ ops'[h].result = "ok" /\ ops'[h].pc = "idle"
                     /\ Persisted'
           /\ (ops'[h].kind = "remove_subscription" /\ ops'[h].pc = "rmtree") =>
                zip_lock'[sub] = h
           /\ (ops[h].kind = "remove_subscription" /\ ops[h].pc = "rmtree"
                   /\ Leaves(h, "remove_subscription") /\ ops'[h].result = "ok") =>
                /\ storage[sub] /\ ~storage'[sub]
                /\ zip_lock[sub] = h
                /\ ~InList(subscriptions', sub)
                /\ Persisted'
    ]_vars

\* one handler removed the destination of chat 1 while chat 2 remained, the other then
\* removed the last destination: the Subscription and its storage are gone
C12_Witness ==
    /\ \A h \in Handlers : /\ ops[h].kind = "remove_subscription"
                            /\ ops[h].pc = "idle" /\ ops[h].result = "ok"
                            /\ ops[h].d = 1
    /\ ops["h1"].chat_id = 1 /\ ops["h2"].chat_id = 2
    /\ ~InList(subscriptions, 1)
    /\ ~storage[1]
    /\ destinations[1] = << >>
    /\ Persisted

\* C13: in every reachable state, after any sequence and interleaving of
\* create_subscription, remove_subscription and pause_subscription, every Subscription
\* in the manager's list has at least one destination.
C13_SubscriptionHasDestination ==
    \A i \in 1..Len(subscriptions) : Len(destinations[subscriptions[i]]) >= 1

\* a Subscription was created from the CompleteDownload while a destination of the
\* first Subscription was removed: both are listed, with one destination each
C13_Witness ==
    /\ ops["h1"].kind = "create_subscription" /\ ops["h1"].result = "ok"
    /\ ops["h2"].kind = "remove_subscription" /\ ops["h2"].result = "ok"
    /\ Len(subscriptions) = 2
    /\ \A i \in 1..2 : Len(destinations[subscriptions[i]]) = 1

\* what the manager holds and has written: its lists, the fields of the Downloads, their
\* storage and locks, and the config file
manager_state ==
    << subscriptions, complete_downloads, destinations, failed_checks, last_check_date,
       last_successful_check_date, kind, link, storage, zip_lock, files, num_files,
       active_download, trackers, saved >>

\* C14: create_subscription(chat_id, creator_id, dl) on a Subscription that already has
\* a destination with the same chat_id and creator_id raises and mutates nothing: the
\* destination list, pause flags, counters and the config file are unchanged.
C14_DuplicateDestinationRejected ==
    [][\A h \in Handlers :
        (/\ Enters(h, "create_subscription")
         /\ kind[ops'[h].d] = "Subscription"
         /\ matching_dest(destinations[ops'[h].d], ops'[h].chat_id, ops'[h].creator_id) # 0)
        => /\ ops'[h].result = "ValueError"
           /\ ops'[h].pc = "idle"
           /\ manager_state' = manager_state
    ]_vars

\* the creator of the destination of chat 1 subscribed again in chat 1 and was refused
C14_Witness ==
    \E h \in Handlers :
        /\ ops[h].kind = "create_subscription" /\ ops[h].result = "ValueError"
        /\ ops[h].d = 1 /\ ops[h].chat_id = 1 /\ ops[h].creator_id = 1
        /\ matching_dest(destinations[1], 1, 1) # 0
        /\ Len(destinations[1]) = 2
        /\ Persisted

\* C15: the destinations of a Subscription are keyed by the pair (chat_id, creator_id):
\* create_subscription on a Subscription appends the new destination whenever no
\* destination has the same pair, in particular when the chat is already bound by
\* another creator.
C15_DestinationsKeyedByPair ==
    [][\A h \in Handlers :
        LET d == ops'[h].d IN
        (/\ Enters(h, "create_subscription")
         /\ kind[d] = "Subscription"
         /\ matching_dest(destinations[d], ops'[h].chat_id, ops'[h].creator_id) = 0)
        => /\ ops'[h].result = "ok"
           /\ destinations'[d] =
                  Append(destinations[d],
                         SubscriptionDestination(ops'[h].chat_id, ops'[h].creator_id,
                                                 ops'[h].now, FALSE))
    ]_vars

\* the fetch of Download d is in progress: its tracker exists and is not complete
MidFetch(d) ==
    /\ active_download[d] # 0
    /\ ~trackers[d][active_download[d]].complete

\* C16: create_subscription(chat_id, creator_id, dl) on a CompleteDownload whose fetch is
\* still in progress raises and changes nothing: no Subscription is created, no storage
\* is copied, and the CompleteDownload stays registered.
C16_MidFetchSubscribeRejected ==
    [][\A h \in Handlers :
        (/\ Enters(h, "create_subscription")
         /\ kind[ops'[h].d] = "CompleteDownload"
         /\ MidFetch(ops'[h].d))
        => /\ ops'[h].pc = "idle"
           /\ ops'[h].result # "ok"
           /\ subscriptions' = subscriptions
           /\ complete_downloads' = complete_downloads
           /\ storage' = storage
    ]_vars

\* where such a call ends: the CompleteDownload was converted into a Subscription
\* and deleted while its fetch is still running
SubscribedMidFetch ==
    /\ ops["h1"].kind = "create_subscription" /\ ops["h1"].pc = "idle"
    /\ ops["h1"].result = "ok"
    /\ MidFetch(ops["h1"].d)
    /\ ~InList(complete_downloads, ops["h1"].d)
    /\ InList(subscriptions, ops["h1"].new)
    /\ ~storage[ops["h1"].d]

\* C17: create_subscription on an idle CompleteDownload d creates a Subscription with
\* d's link, exactly one destination (chat_id, creator_id, not paused) and
\* failed_checks = 0, removes d from the CompleteDownload list, deletes d's storage and
\* saves; afterwards a lookup by the link returns the Subscription and no
\* CompleteDownload with that link remains.
C17_SubscribeConvertsCompleteDownload ==
    [][\A h \in Handlers :
        LET d == ops[h].d
            n == ops'[h].new
            dest == SubscriptionDestination(ops[h].chat_id, ops[h].creator_id,
                                            ops[h].now, FALSE)
        IN /\ (/\ ops[h].kind = "create_subscription" /\ ops[h].pc = "copytree"
                /\ ops'[h].pc \in {"rmtree", "wait_lock"})
               => /\ kind[n] = "none" /\ kind'[n] = "Subscription"
                  /\ link'[n] = link[d]
                  /\ destinations'[n] = << dest >>
                  /\ failed_checks'[n] = 0
                  /\ subscriptions' = Append(subscriptions, n)
                  /\ storage'[n]
                  /\ InList(complete_downloads, d) /\ ~InList(complete_downloads', d)
                  /\ (first_match(complete_downloads, link[ops[h].d]))' = 0
                  /\ (download_for_link(link[ops[h].d]))' = n
           /\ (/\ ops[h].kind = "create_subscription" /\ ops[h].pc = "rmtree"
                /\ Leaves(h, "create_subscription") /\ ops'[h].result = "ok")
               => /\ storage[d] /\ ~storage'[d]
                  /\ ~InList(complete_downloads', d)
                  /\ Persisted'
                  /\ (\A g \in Handlers \ {h} : ops[g].calls = 0)
                        => /\ (download_for_link(link[ops[h].d]))' = n
                           /\ (first_match(complete_downloads, link[ops[h].d]))' = 0
                           /\ destinations'[n] = << dest >>
                           /\ failed_checks'[n] = 0
                           /\ kind'[n] = "Subscription"
    ]_vars

\* the CompleteDownload 2 was subscribed to from chat 2 by user 1: Subscription 3 took
\* its place
C17_Witness ==
    /\ ops["h1"] = [IdleOp EXCEPT !.kind = "create_subscription", !.d = 2, !.new = 3,
                                  !.chat_id = 2, !.creator_id = 1, !.result = "ok",
                                  !.calls = 1]
    /\ ops["h2"] = IdleOp
    /\ subscriptions = << 1, 3 >>
    /\ complete_downloads = << >>
    /\ link[3] = link[2]
    /\ destinations[3] = << SubscriptionDestination(2, 1, 0, FALSE) >>
    /\ ~storage[2] /\ storage[3]
    /\ download_for_link(LinkList(<< "B", "-x" >>)) = 3
    /\ Persisted

\* the registered Downloads with the same string form of the link
SameLinkStr(lnk) ==
    {d \in Range(all_downloads) : link_to_str(link[d]) = link_to_str(lnk)}

\* C18: create_download(link) called while a Download or Subscription with the same
\* string form of the link is registered returns that object and registers nothing new,
\* whichever of the stored and the requested link is a string and whichever a list; a
\* second create_download with the same link returns the same Download.
C18_CreateDownloadIdempotent ==
    [][\A h \in Handlers :
        (/\ Enters(h, "create_download")
         /\ SameLinkStr(ops'[h].link) # {})
        => /\ ops'[h].d \in SameLinkStr(ops'[h].link)
           /\ ops'[h].new = 0
           /\ all_downloads' = all_downloads
    ]_vars

\* no Subscription with the string form of the link has a destination in the chat
NoDestination(lnk, chat_id) ==
    \A d \in Range(subscriptions) :
        link_to_str(link[d]) = link_to_str(lnk) =>
            \A k \in 1..Len(destinations[d]) : destinations[d][k].chat_id # chat_id

\* C19: remove_subscription(link, chat_id) and pause_subscription(link, chat_id, pause)
\* for a link and chat with no matching destination raise and leave the subscriptions,
\* their destinations and pause flags, the storage and the config file unchanged.
C19_MissingDestinationRejected ==
    [][\A h \in Handlers :
        (/\ Enters(h, "remove_subscription") \/ Enters(h, "pause_subscription")
         /\ NoDestination(ops'[h].link, ops'[h].chat_id))
        => /\ ops'[h].result = "ValueError"
           /\ ops'[h].pc = "idle"
           /\ manager_state' = manager_state
    ]_vars

\* the destination of chat 1 was removed while the one of chat 2 remained; pausing the
\* Subscription in chat 1 was then refused
C19_Witness ==
    /\ ops["h1"].kind = "remove_subscription" /\ ops["h1"].result = "ok"
    /\ ops["h1"].d = 1 /\ ops["h1"].chat_id = 1
    /\ ops["h2"].kind = "pause_subscription" /\ ops["h2"].result = "ValueError"
    /\ ops["h2"].d = 1 /\ ops["h2"].chat_id = 1 /\ ops["h2"].pause
    /\ subscriptions = << 1 >>
    /\ destinations[1] = << SubscriptionDestination(2, 1, 0, FALSE) >>
    /\ Persisted

\* ---- shutting down -------------------------------------------------------------

\* the registered Downloads whose tracker is not complete
Incomplete == {d \in Range(all_downloads) : MidFetch(d)}

C21_SaveIsAtomic ==
    [][/\ saving.canonical = "whole" /\ saving'.canonical = "whole"
       /\ saved' # saved =>
            /\ saving.pc = "replace" /\ saving.bak = "whole"
            /\ saved' = current_config
       /\ saving'.pc = "idle" => saved' = current_config'
    ]_vars

\* a save completed, then the process was killed while the next save was writing the
\* .bak file: subscriptions.json still holds the earlier snapshot, which was loaded
C21_Witness ==
    /\ saving.pc = "idle"
    /\ saving.bak = "partial"
    /\ saving.canonical = "whole"
    /\ saving.bak_data # saved
    /\ saved.subscriptions[1].destinations[1].paused
    /\ destinations[1][1].paused
    /\ Persisted

C23_InstallExcludesFetch ==
    WriterHeld =>
        \A d \in Downloads : \A t \in 1..Len(trackers[d]) : trackers[d][t].proc # "running"

\* C24: for one Download, making and using a zip never overlaps with the recursive
\* deletion of its storage by delete_download or remove_subscription: each runs only
\* while holding Download.zip_lock, and a deletion asked for during a zip waits for
\* the zip scope to be left.
C24_ZipExcludesDeletion ==
    /\ \A h \in Handlers :
          ops[h].pc \in {"zipping", "rmtree"} => zip_lock[ops[h].d] = h
    /\ \A h \in Handlers : \A g \in Handlers \ {h} :
          ops[h].pc = "zipping" /\ ops[g].d = ops[h].d => ops[g].pc # "rmtree"

\* a deletion of the storage was asked for while the zip of the same Download is in
\* use, and waits
C24_Witness ==
    \E h \in Handlers : \E g \in Handlers \ {h} :
        /\ ops[h].pc = "zipping" /\ zip_lock[ops[h].d] = h
        /\ ops[g].pc = "wait_lock" /\ ops[g].d = ops[h].d
        /\ ops[g].kind \in {"delete_download", "remove_subscription"}

\* C25: the copy of a CompleteDownload's storage made by create_subscription never
\* overlaps with a zip of that Download (the copy being made under its zip_lock).
C25_CopyExcludesZip ==
    \A h \in Handlers :
        ops[h].pc = "copytree" =>
            \A g \in Handlers \ {h} :
                ~(ops[g].pc = "zipping" /\ ops[g].d = ops[h].d)

\* C26: once a call of Download.zip has been left, the temporary directory made for
\* the archive parts no longer exists, on every exit path: normal exit, failure of
\* the zip command, an exception in the caller's body, and cancellation at any
\* suspension point, the wait for zip_lock included.
C26_ZipDirRemoved ==
    \A h \in Handlers :
        ops[h].kind = "zip" /\ ops[h].pc = "idle" => ~ops[h].zip_dir

\* C27: within one poll the polling loop stops consuming the fetch as soon as ten
\* consecutive empty batches have been observed, on the tenth and not later: a loop
\* that has received ten batches, all of them empty, is no longer consuming.
C27_StopsOnTenthEmptyBatch ==
    (cons["loop"].zero_batches >= EMPTY_BATCH_LIMIT /\ cons["loop"].new_items = << >>)
        => cons["loop"].pc = "idle"

\* C28: when the empty-batch guard stops a poll early, the poll is recorded as a
\* success: failed_checks is unchanged, last_check_date and
\* last_successful_check_date are set to the current time, and the state is saved.
C28_GuardStopIsSuccess ==
    [][(/\ cons["loop"].pc # "idle"
        /\ cons'["loop"].pc = "idle" /\ cons'["loop"].outcome = "break")
       => LET d == cons["loop"].d
          IN /\ failed_checks'[d] = failed_checks[d]
             /\ last_check_date'[d] = clock
             /\ last_successful_check_date'[d] = clock
             /\ Persisted'
      ]_vars

\* the polling loop left a poll by its empty-batch guard, at a time later than the
\* Subscription's creation, and the file holds the new timestamps
C28_Witness ==
    /\ cons["loop"].pc = "idle" /\ cons["loop"].outcome = "break"
    /\ clock >= SUB_UPDATE_AFTER
    /\ last_check_date[cons["loop"].d] = clock
    /\ last_successful_check_date[cons["loop"].d] = clock
    /\ failed_checks[cons["loop"].d] = 0
    /\ Persisted

\* C29: when an on-demand download() is the call that runs the fetch and the fetch
\* tool exits nonzero or times out, the failure is raised to that caller from the
\* batch stream: a caller whose stream is over after such a fetch has seen a raise.
C29_OnDemandFailureRaised ==
    \A d \in Downloads : \A t \in 1..Len(trackers[d]) :
        ( /\ trackers[d][t].owner = "user"
          /\ trackers[d][t].result = "CmdException"
          /\ cons["user"].pc = "idle"
          /\ cons["user"].d = d /\ cons["user"].t = t )
        => cons["user"].outcome = "raise"

\* C30: the polling loop never starts or joins a fetch for a Subscription whose
\* last_check_date is less than SUB_UPDATE_AFTER before the current time; it passes
\* over an entry of its snapshot only when that entry is not due, and otherwise
\* calls download() on it, entry after entry; and an on-demand download() that
\* starts a fetch stamps last_check_date with the current time, which by the first
\* part keeps the loop from polling that Subscription for SUB_UPDATE_AFTER.
C30_PollsExactlyTheDue ==
    [][/\ (cons["loop"].pc = "idle" /\ cons'["loop"].pc # "idle")
          => /\ cons'["loop"].d = snapshot[idx]
             /\ clock - last_check_date[snapshot[idx]] >= SUB_UPDATE_AFTER
       /\ idx' # idx
          => \/ idx' = 1 /\ loop_pc \in {"init", "sleep"} /\ snapshot' = subscriptions
             \/ /\ idx' = idx + 1 /\ snapshot' = snapshot
                /\ \/ /\ loop_pc = "head"
                      /\ clock - last_check_date[snapshot[idx]] < SUB_UPDATE_AFTER
                   \/ loop_pc = "poll" /\ cons["loop"].d = snapshot[idx]
       /\ (cons["user"].pc = "idle" /\ cons'["user"].pc = "run")
          => last_check_date'[cons'["user"].d] = clock
      ]_vars

\* the polling loop passed over the second Subscription of its snapshot, which an
\* on-demand fetch had stamped, after it polled the first one, which was due
C30_Witness ==
    /\ loop_pc = "head" /\ idx = 3 /\ snapshot = << 1, 2 >>
    /\ cons["loop"].d = 1 /\ cons["loop"].outcome = "end"
    /\ last_check_date[1] = SUB_UPDATE_AFTER
    /\ last_check_date[2] = SUB_UPDATE_AFTER
    /\ \E t \in 1..Len(trackers[2]) : trackers[2][t].owner = "user"
    /\ clock = SUB_UPDATE_AFTER

\* ---- kill, stop and the polling loop ----------------------------------------------

\* send_new_items returned having sent every line of T to every destination once
FannedOut(T, dests) ==
    \A i \in 1..Len(T.lines_so_far) : \A k \in 1..Len(dests) :
        Cardinality({j \in 1..Len(T.sent) :
                        /\ T.sent[j].chat_id = dests[k].chat_id
                        /\ T.sent[j].item = T.lines_so_far[i]}) = 1

C32_StopHaltsPolling ==
    /\ [][(~running /\ loop_pc # "init")
            => /\ ~(cons["loop"].pc = "idle" /\ cons'["loop"].pc # "idle")
               /\ trackers' # trackers =>
                     /\ \A d \in Downloads : Len(trackers'[d]) = Len(trackers[d])
               /\ idx' # idx => loop_pc = "poll" /\ idx' = idx + 1
               /\ loop_pc' # loop_pc =>
                     \/ loop_pc = "poll" /\ loop_pc' = "head"
                     \/ loop_pc = "head" /\ idx <= Len(snapshot) /\ loop_pc' = "done"
                     \/ loop_pc = "head" /\ idx > Len(snapshot) /\ loop_pc' = "sleep"
                     \/ loop_pc = "sleep" /\ loop_pc' = "done"
         ]_vars
    /\ (~running /\ loop_pc # "init") ~> (loop_pc = "done")

\* stop was signalled during the poll of the first of two due Subscriptions: the poll
\* was finished, the second Subscription was not fetched and the runner task ended
C32_Witness ==
    /\ ~running /\ loop_pc = "done" /\ stop_pc = "joining"
    /\ snapshot = << 1, 2 >> /\ idx = 2
    /\ cons["loop"].d = 1 /\ cons["loop"].outcome = "end"
    /\ clock - last_check_date[2] >= SUB_UPDATE_AFTER
    /\ trackers[2] = << >>
    /\ Len(trackers[1]) = 1 /\ trackers[1][1].complete

\* ---- the lists, the file and the storage under concurrent callbacks --------------

\* no manager operation is in progress in any handler
Quiescent == \A h \in Handlers : ops[h].pc = "idle"

\* the Downloads listed in the file, in its order
SavedSubscriptions == [i \in 1..Len(saved.subscriptions) |-> saved.subscriptions[i].path]
SavedCompleteDownloads ==
    [i \in 1..Len(saved.complete_downloads) |-> saved.complete_downloads[i].path]

\* C33: at every quiescent point the persisted subscriptions and complete_downloads
\* are the in-memory lists; in particular the file no longer lists a
\* CompleteDownload once delete_download of it has completed.
C33_ListsPersistedWhenQuiescent ==
    Quiescent =>
        /\ SavedSubscriptions = subscriptions
        /\ SavedCompleteDownloads = complete_downloads

\* C34: under concurrent create_subscription calls on the same CompleteDownload, at
\* most one Subscription for that link ever exists in the manager's list.
C34_OneSubscriptionPerLink ==
    \A i \in 1..Len(subscriptions) : \A j \in 1..Len(subscriptions) :
        link[subscriptions[i]] = link[subscriptions[j]] => i = j

\* C35: the polling loop never calls download() on a Subscription that is no longer
\* in the manager's list: one removed while a cycle is in progress is not fetched
\* later in that cycle.
C35_RemovedNotPolled ==
    [][(cons["loop"].pc = "idle" /\ cons'["loop"].pc # "idle")
          => InList(subscriptions, cons'["loop"].d)]_vars

\* C36: when several fetches are requested before the fetch tool has been installed,
\* the install action runs once: a make_cmd call that waited for another call's
\* installation does not run pip again once last_update is set.
C36_InstallRunsOnce ==
    \A d \in Downloads : \A t \in 1..Len(trackers[d]) :
        trackers[d][t].pc = "install" => ~installed

\* C37: when a destination of the Subscription is removed or added while a fan-out is
\* suspended on an upload or a send, every destination that stays bound and is not
\* paused for the whole fan-out still receives every item exactly once. (The
\* destinations loaded at the start carry the date 0; one added later carries the
\* date of its creation, so a destination of date 0 in the list has stayed bound.)
C37_StayingDestinationsServedOnce ==
    \A d \in Downloads : \A t \in 1..Len(trackers[d]) :
        LET T == trackers[d][t]
            dests == destinations[d]
        IN T.fanout = "returned"
           => \A k \in 1..Len(dests) :
                (dests[k].created_date = 0 /\ ~dests[k].paused)
                => \A i \in 1..Len(T.lines_so_far) :
                     Cardinality({j \in 1..Len(T.sent) :
                                     /\ T.sent[j].chat_id = dests[k].chat_id
                                     /\ T.sent[j].item = T.lines_so_far[i]}) = 1

\* C38: when the consumer of run() stops iterating before the stream ends (it raises
\* while handling a batch), the tracker still eventually reaches complete == true.
C38_AbandonedFetchCompletes ==
    \A d \in Downloads : \A t \in 1..MaxRuns :
        (t <= Len(trackers[d]) /\ trackers[d][t].pc = "closed")
        ~> (t <= Len(trackers[d]) /\ trackers[d][t].complete)

\* C39: when delete_download or remove_subscription deletes the storage of a
\* Download, no fetch of that Download is running: a fetch that is active when the
\* deletion is requested has been killed or waited for before rmtree returns.
C39_NoFetchIntoDeletedStorage ==
    [][\A d \in Downloads :
          (storage[d] /\ ~storage'[d])
          => \A t \in 1..Len(trackers'[d]) :
               ~(trackers'[d][t].pc = "fetch" /\ trackers'[d][t].proc = "running")]_vars

\* C40: in every reachable state last_successful_check_date <= last_check_date holds
\* for every Subscription, and neither timestamp of a Subscription ever decreases
\* across create_subscription, download(), failing polls and successful polls.
C40_CheckDatesOrdered ==
    /\ [](\A d \in Downloads :
            kind[d] = "Subscription"
            => last_successful_check_date[d] <= last_check_date[d])
    /\ [][\A d \in Downloads :
            (kind[d] = "Subscription" /\ kind'[d] = "Subscription")
            => /\ last_check_date'[d] >= last_check_date[d]
               /\ last_successful_check_date'[d] >= last_successful_check_date[d]]_vars

\* a Subscription polled with success and stamped again later by a failing poll, and
\* a Subscription made by create_subscription
C40_Witness ==
    /\ \E d \in Downloads :
          /\ kind[d] = "Subscription"
          /\ 0 < last_successful_check_date[d]
          /\ last_successful_check_date[d] < last_check_date[d]
          /\ failed_checks[d] > 0
    /\ \E n \in Downloads : kind[n] = "Subscription" /\ ~InList(InitSubscriptions, n)

====
